---- MODULE Spec2Model ----
(***************************************************************************)
(* Routing engine of wireguard-domain-tunnel: the route manager            *)
(* (RouteManager), the VPN adapter (WireGuard.addAllowedIps /              *)
(* removeAllowedIps / getAllowedIps) and the conflict detector             *)
(* (ConflictDetector), as one state machine.                               *)
(*                                                                         *)
(* The program runs on a single-threaded event loop: the code between two  *)
(* awaits is one atomic step. Every VPN call awaits twice: the dump read   *)
(* (`wg show all dump`) and the write (`wg set ... allowed-ips`); other    *)
(* handlers run while it waits. An external command is taken to act at     *)
(* the instant its callback runs (FetchReturn, SetReturn).                 *)
(***************************************************************************)
EXTENDS Integers, Sequences, FiniteSets, TLC

\* ------------------------------------------------------------------ bounds
\* Operations that may be in flight (awaiting a VPN command) at once.
MaxOps == 2
\* Route-manager calls (API calls, timer ticks) in one run.
MaxCalls == 3
\* DNS replies recorded in one run.
MaxRecords == 2
\* Route-manager calls in one run of the conflict scenario.
MaxConflictCalls == 2
\* injectRoutes calls in one run of the expiry scenario.
MaxExpiryCalls == 2
\* Conflict-detector calls in one run of the detector scenario.
MaxDetectorOps == 4
\* Times the mappings may age, and the ms they age each time: two steps make
\* a mapping stale (mappingTtl), one does not.
MaxAgeSteps == 2
AgeStepMs == 200000
\* Times the clock may advance, and the ms it advances each time.
MaxClock == 1
ClockStepMs == 2000
\* Interval timers that may be alive at once (setInterval handles).
MaxTimers == 2

\* ------------------------------------------------------- program constants
MsPerSecond == 1000
mappingTtl == 5 * 60 * 1000
cleanupInterval == 60 * 1000
\* ttl passed by the route-injection handler (300) and the spec's scenario (1)
DefaultRouteTtl == 300
TTLs == {1, DefaultRouteTtl}

\* ------------------------------------------------------------- value sets
\* Addresses as DNS A records carry them (no mask).
RawIps == {"10.0.0.1", "10.0.0.2"}
Sentinel == "0.0.0.0/32"
Cidrs == {ip \o "/32" : ip \in RawIps}
\* Names as callers pass them, and their lowercase forms.
InputDomains == {"A.TEST", "b.test"}
toLowerCase(d) == IF d = "A.TEST" THEN "a.test" ELSE d
Domains == {toLowerCase(d) : d \in InputDomains}
\* Rule set of the spec's scenario 3: a.test tunnels, b.test is direct.
MatchTunnel(d) == toLowerCase(d) = "a.test"
\* ips arrays passed to injectRoutes / recordMappings
IpLists == {<<"10.0.0.1">>, <<"10.0.0.2">>, <<"10.0.0.1", "10.0.0.2">>}
\* A records the upstreams return: both names share 10.0.0.1 (scenario 3)
Resolve(d) == IF toLowerCase(d) = "a.test" THEN <<"10.0.0.1", "10.0.0.2">>
              ELSE <<"10.0.0.1">>
\* allowed-ips the user may have configured on the peer before the program runs
InitialPeers == {{}, {"10.0.0.1/32"}}

\* ---------------------------------------------------------------- helpers
SeqToSet(s) == {s[k] : k \in 1..Len(s)}
includes(s, x) == x \in SeqToSet(s)
EmptyMap == [k \in {} |-> k]
MapSet(f, k, v) == [y \in DOMAIN f \cup {k} |-> IF y = k THEN v ELSE f[y]]
MapDelete(f, k) == [y \in DOMAIN f \ {k} |-> f[y]]
MapDeleteAll(f, ks) == [y \in DOMAIN f \ ks |-> f[y]]
\* Array.from(set): the members as an array. The adapter turns the array into
\* a Set again, so the order is immaterial and one order stands for all.
ArrayFrom(S) == CHOOSE s \in [1..Cardinality(S) -> S] : SeqToSet(s) = S
\* ip.includes('/')
HasSlash(ip) == ip \in Cidrs \cup {Sentinel}
\* ip.includes('/') ? ip : `${ip}/32`
IpWithMask(ip) == IF HasSlash(ip) THEN ip ELSE ip \o "/32"

\* no match(domain) call made yet
NoMatchCall == [domain |-> << >>, result |-> [matched |-> FALSE, tunnel |-> FALSE]]

\* Client queries in one run of the DNS proxy scenario.
MaxQueries == 2
QueryIds == 1..MaxQueries
\* no message with this query has arrived yet
NoQuery == [pc |-> "none", domain |-> "", tunnel |-> FALSE, events |-> << >>,
            upstream |-> "none", replied |-> FALSE, sent |-> << >>,
            mapping |-> << >>, injection |-> << >>]
\* Sockets the DNS proxy creates in one run.
MaxSockets == 2
SocketIds == 1..MaxSockets
\* this.server = null
NoSocket == 0
\* SOCKS connections the SNI proxy accepts in one run.
MaxConns == 2
ConnIds == 1..MaxConns
\* no connection with this id has been accepted yet
NoConn == [pc |-> "none", client |-> "none", outbound |-> "none", written |-> << >>,
           cause |-> "none"]
\* /etc/resolv.conf does not exist
Missing == <<"ENOENT">>
\* an operating system nothing is configured on: no DNS server on the macOS
\* network service, pf anchor empty, no resolv.conf, systemd-resolved
\* inactive and without drop-in, no port-53 REDIRECT rule in nat/OUTPUT
NoOs == [dns |-> << >>, anchor |-> FALSE, resolvConf |-> Missing, symlink |-> FALSE,
         resolved |-> FALSE, dropIn |-> FALSE, udpRedirects |-> 0, tcpRedirects |-> 0]
\* private backup: DnsBackup | null = null
NoBackup == [platform |-> "none"]

\* the rules are not the result of a loadRules call
NotLoaded == [done |-> FALSE, list |-> << >>]

VARIABLES
    peer,               \* allowed-ips of the configured peer, as the VPN holds them
    now,                \* Date.now(), in ms
    injectedRoutes,     \* RouteManager.injectedRoutes: ip/32 -> InjectedRoute
    domainToIps,        \* RouteManager.domainToIps: domain -> set of ip/32
    originalAllowedIps, \* RouteManager.originalAllowedIps
    cleanupTimer,       \* RouteManager.cleanupTimer # null
    liveTimers,         \* interval timers created and not cleared
    ipToDomains,        \* ConflictDetector.ipToDomains: ip -> mappings
    cdDomainToIps,      \* ConflictDetector.domainToIps: domain -> set of ip
    conflicts,          \* ConflictDetector.conflicts: ip -> IpConflict
    ops,                \* operations awaiting a VPN command
    emitted,            \* events emitted by the last step, in order
    outcome,            \* the method that returned in the last step, and how
    calls,              \* route-manager calls so far
    records,            \* DNS replies recorded so far
    userAllowedIps,     \* history: allowed-ips the user had configured
    started,            \* history: a start() has returned
    unmatched,          \* history: ips with a conflict-detected not yet followed
                        \* by a conflict-resolved
    addCalls,           \* history: addAllowedIps calls naming ip/32 since it was tracked
    trackedAtConflict,  \* history: ip/32 tracked when its conflict was detected
    rules,              \* DomainMatcher.rules: the rules in insertion order
    lastMatch,          \* the last match(domain) call and what it returned
    loaded,             \* history: the list whose loadRules call produced rules
    server,             \* DnsProxy.server: a socket, or NoSocket
    sockets,            \* the UDP sockets created: none, binding, bound, failed, closed
    isRunning,          \* DnsProxy.isRunning
    queries,            \* the client queries: where handleQuery stands, its events
    sniRunning,         \* SniProxy.isRunning
    sniServer,          \* SniProxy.server: null, listening, or closing
    activeConnections,  \* SniProxy.activeConnections
    connections,        \* the SOCKS connections: where handleConnection stands
    platform,           \* os.platform()
    os,                 \* the resolver configuration of the operating system
    found,              \* history: os before the first configure()
    backup,             \* SystemDns.backup
    isConfigured,       \* SystemDns.isConfigured
    lifecycle,          \* history: the configure() and restore() calls so far
    dnsBackup,          \* configStore's persisted dnsBackup (survives the process)
    app                 \* main.ts: where initializeModules / startProxy stands

vars == <<peer, now, injectedRoutes, domainToIps, originalAllowedIps, cleanupTimer,
          liveTimers, ipToDomains, cdDomainToIps, conflicts, ops, emitted, outcome,
          calls, records, userAllowedIps, started, unmatched, addCalls,
          trackedAtConflict, rules, lastMatch, loaded, server, sockets, isRunning,
          queries, sniRunning, sniServer, activeConnections, connections, platform,
          os, found, backup, isConfigured, lifecycle, dnsBackup, app>>
matcherVars == <<rules, lastMatch, loaded>>
dnsVars == <<server, sockets, isRunning, queries>>
sniVars == <<sniRunning, sniServer, activeConnections, connections>>
sysVars == <<platform, os, found, backup, isConfigured, lifecycle>>
appVars == <<dnsBackup, app>>
rmVars == <<injectedRoutes, domainToIps, originalAllowedIps, cleanupTimer, liveTimers>>
tableVars == <<injectedRoutes, domainToIps>>
cdVars == <<ipToDomains, cdDomainToIps, conflicts>>

\* ------------------------------------------------------- conflict detector
\* The detector's three maps, the events emitted so far in this step, and
\* window: the main window exists, so the listeners of conflict-detected and
\* conflict-resolved compute the status (sendStatusUpdate -> getStatus ->
\* getConflicts -> cleanupStale) while the event is being emitted.
CdState(window) ==
    [ipToDomains |-> ipToDomains, domainToIps |-> cdDomainToIps,
     conflicts |-> conflicts, events |-> << >>, window |-> window]

\* [...new Set(list)]: first occurrences, in order
RECURSIVE Dedup(_)
Dedup(s) ==
    IF s = << >> THEN << >>
    ELSE LET init == Dedup(SubSeq(s, 1, Len(s) - 1))
             last == s[Len(s)]
         IN IF includes(init, last) THEN init ELSE Append(init, last)

RECURSIVE MapDomain(_)
MapDomain(ms) == IF ms = << >> THEN << >> ELSE <<ms[1].domain>> \o MapDomain(Tail(ms))

IsFresh(m) == now - m.timestamp < mappingTtl
IsTunnel(m) == m.tunnel
IsDirect(m) == ~m.tunnel

RECURSIVE cleanupStale(_)
\* this.emit(type, ...): the listeners run before emit returns
Emit(cd, event) ==
    LET cd1 == [cd EXCEPT !.events = Append(@, event)]
    IN IF cd.window THEN cleanupStale(cd1) ELSE cd1

\* if (this.conflicts.has(ip)) { delete; emit('conflict-resolved', ip) }
ResolveConflict(cd, ip) ==
    IF ip \in DOMAIN cd.conflicts
    THEN Emit([cd EXCEPT !.conflicts = MapDelete(@, ip)],
              [type |-> "conflict-resolved", ip |-> ip])
    ELSE cd

\* Variant: conflict-detected is emitted on every upsert (no isNew test).
checkForConflictAlwaysEmits(cd, ip) ==
    IF ip \notin DOMAIN cd.ipToDomains \/ Len(cd.ipToDomains[ip]) < 2
    THEN ResolveConflict(cd, ip)
    ELSE LET validMappings == SelectSeq(cd.ipToDomains[ip], IsFresh)
             cd1 == [cd EXCEPT !.ipToDomains = MapSet(@, ip, validMappings)]
             tunnelDomains == MapDomain(SelectSeq(validMappings, IsTunnel))
             directDomains == MapDomain(SelectSeq(validMappings, IsDirect))
             conflict == [ip |-> ip, tunnelDomains |-> Dedup(tunnelDomains),
                          directDomains |-> Dedup(directDomains), detectedAt |-> now]
         IN IF Len(validMappings) < 2
            THEN ResolveConflict(cd1, ip)
            ELSE IF Len(tunnelDomains) > 0 /\ Len(directDomains) > 0
            THEN Emit([cd1 EXCEPT !.conflicts = MapSet(@, ip, conflict)],
                      [type |-> "conflict-detected", ip |-> ip])
            ELSE ResolveConflict(cd1, ip)

checkForConflict(cd, ip) ==
    IF ip \notin DOMAIN cd.ipToDomains \/ Len(cd.ipToDomains[ip]) < 2
    THEN ResolveConflict(cd, ip)
    ELSE LET validMappings == SelectSeq(cd.ipToDomains[ip], IsFresh)
             cd1 == [cd EXCEPT !.ipToDomains = MapSet(@, ip, validMappings)]
             tunnelDomains == MapDomain(SelectSeq(validMappings, IsTunnel))
             directDomains == MapDomain(SelectSeq(validMappings, IsDirect))
             conflict == [ip |-> ip, tunnelDomains |-> Dedup(tunnelDomains),
                          directDomains |-> Dedup(directDomains), detectedAt |-> now]
             isNew == ip \notin DOMAIN cd1.conflicts
             cd2 == [cd1 EXCEPT !.conflicts = MapSet(@, ip, conflict)]
         IN IF Len(validMappings) < 2
            THEN ResolveConflict(cd1, ip)
            ELSE IF Len(tunnelDomains) > 0 /\ Len(directDomains) > 0
            THEN IF isNew THEN Emit(cd2, [type |-> "conflict-detected", ip |-> ip])
                 ELSE cd2
            ELSE ResolveConflict(cd1, ip)

\* Variant: the filter keeps the mappings of this domain and drops the others.
recordMappingKeepsSame(cd, domain, ip, tunnel) ==
    LET normalizedDomain == toLowerCase(domain)
        mapping == [domain |-> normalizedDomain, ip |-> ip, tunnel |-> tunnel,
                    timestamp |-> now]
        domainList == IF ip \in DOMAIN cd.ipToDomains THEN cd.ipToDomains[ip] ELSE << >>
        ThisDomain(m) == m.domain = normalizedDomain
        filteredList == Append(SelectSeq(domainList, ThisDomain), mapping)
        ipSet == IF normalizedDomain \in DOMAIN cd.domainToIps
                 THEN cd.domainToIps[normalizedDomain] ELSE {}
    IN checkForConflict(
           [cd EXCEPT !.ipToDomains = MapSet(@, ip, filteredList),
                      !.domainToIps = MapSet(@, normalizedDomain, ipSet \cup {ip})],
           ip)

recordMapping(cd, domain, ip, tunnel) ==
    LET normalizedDomain == toLowerCase(domain)
        mapping == [domain |-> normalizedDomain, ip |-> ip, tunnel |-> tunnel,
                    timestamp |-> now]
        domainList == IF ip \in DOMAIN cd.ipToDomains THEN cd.ipToDomains[ip] ELSE << >>
        NotThisDomain(m) == m.domain # normalizedDomain
        filteredList == Append(SelectSeq(domainList, NotThisDomain), mapping)
        ipSet == IF normalizedDomain \in DOMAIN cd.domainToIps
                 THEN cd.domainToIps[normalizedDomain] ELSE {}
    IN checkForConflict(
           [cd EXCEPT !.ipToDomains = MapSet(@, ip, filteredList),
                      !.domainToIps = MapSet(@, normalizedDomain, ipSet \cup {ip})],
           ip)

RECURSIVE recordMappings(_, _, _, _)
recordMappings(cd, domain, ips, tunnel) ==
    IF ips = << >> THEN cd
    ELSE recordMappings(recordMapping(cd, domain, Head(ips), tunnel), domain, Tail(ips),
                        tunnel)

\* Variant: stale mappings are pruned but the conflict is not re-checked.
CleanupIpNoRecheck(cd, ip) ==
    IF ip \notin DOMAIN cd.ipToDomains THEN cd
    ELSE LET mappings == cd.ipToDomains[ip]
             validMappings == SelectSeq(mappings, IsFresh)
         IN IF Len(validMappings) = 0
            THEN ResolveConflict([cd EXCEPT !.ipToDomains = MapDelete(@, ip)], ip)
            ELSE IF Len(validMappings) # Len(mappings)
            THEN [cd EXCEPT !.ipToDomains = MapSet(@, ip, validMappings)]
            ELSE cd

\* One pass of cleanupStale's first loop. The Map's iterator is live: an
\* entry a listener's nested cleanup has deleted is not visited.
CleanupIp(cd, ip) ==
    IF ip \notin DOMAIN cd.ipToDomains THEN cd
    ELSE LET mappings == cd.ipToDomains[ip]
             validMappings == SelectSeq(mappings, IsFresh)
         IN IF Len(validMappings) = 0
            THEN ResolveConflict([cd EXCEPT !.ipToDomains = MapDelete(@, ip)], ip)
            ELSE IF Len(validMappings) # Len(mappings)
            THEN checkForConflict([cd EXCEPT !.ipToDomains = MapSet(@, ip, validMappings)],
                                  ip)
            ELSE cd

RECURSIVE CleanupIps(_, _)
CleanupIps(cd, ips) ==
    IF ips = << >> THEN cd ELSE CleanupIps(CleanupIp(cd, Head(ips)), Tail(ips))

\* cleanupStale's second loop: each domain keeps the ips that still map to it
PruneDomains(cd) ==
    LET HasDomain(m, domain) == m.domain = domain
        validIps(domain) ==
            {ip \in cd.domainToIps[domain] :
                /\ ip \in DOMAIN cd.ipToDomains
                /\ \E k \in 1..Len(cd.ipToDomains[ip]) :
                      HasDomain(cd.ipToDomains[ip][k], domain)}
        kept == {domain \in DOMAIN cd.domainToIps : validIps(domain) # {}}
    IN [cd EXCEPT !.domainToIps = [domain \in kept |-> validIps(domain)]]

\* The entries are independent of one another, so the iteration order (the
\* Map's insertion order) does not change the result for any ip.
cleanupStale(cd) ==
    PruneDomains(CleanupIps(cd, ArrayFrom(DOMAIN cd.ipToDomains)))

\* getConflicts(): cleanupStale, then the conflicts
getConflicts(cd) == cleanupStale(cd)

\* removeDomain's loop over the domain's ips (the Set captured before the loop)
RECURSIVE RemoveDomainIps(_, _, _)
RemoveDomainIps(cd, ips, normalizedDomain) ==
    IF ips = << >> THEN cd
    ELSE LET ip == Head(ips)
             mappings == IF ip \in DOMAIN cd.ipToDomains THEN cd.ipToDomains[ip]
                         ELSE << >>
             NotThisDomain(m) == m.domain # normalizedDomain
             filtered == SelectSeq(mappings, NotThisDomain)
             next == IF Len(filtered) = 0
                     THEN ResolveConflict([cd EXCEPT !.ipToDomains = MapDelete(@, ip)], ip)
                     ELSE checkForConflict(
                              [cd EXCEPT !.ipToDomains = MapSet(@, ip, filtered)], ip)
         IN RemoveDomainIps(next, Tail(ips), normalizedDomain)

removeDomain(cd, domain) ==
    LET normalizedDomain == toLowerCase(domain)
    IN IF normalizedDomain \in DOMAIN cd.domainToIps
       THEN LET done == RemoveDomainIps(cd, ArrayFrom(cd.domainToIps[normalizedDomain]),
                                        normalizedDomain)
            IN [done EXCEPT !.domainToIps = MapDelete(@, normalizedDomain)]
       ELSE cd

RECURSIVE EmitResolved(_, _)
EmitResolved(cd, ips) ==
    IF ips = << >> THEN cd
    ELSE EmitResolved(Emit(cd, [type |-> "conflict-resolved", ip |-> Head(ips)]),
                      Tail(ips))

clear(cd) ==
    EmitResolved([cd EXCEPT !.ipToDomains = EmptyMap, !.domainToIps = EmptyMap,
                            !.conflicts = EmptyMap],
                 ArrayFrom(DOMAIN cd.conflicts))

hasConflict(ip) == ip \in DOMAIN conflicts
getConflictingIps == DOMAIN conflicts

\* ------------------------------------------------------------ observers
getInjectedRoutes == {injectedRoutes[k] : k \in DOMAIN injectedRoutes}
getRoutesForDomain(domain) ==
    IF toLowerCase(domain) \in DOMAIN domainToIps
    THEN domainToIps[toLowerCase(domain)] ELSE {}
hasRoutesForDomain(domain) ==
    /\ toLowerCase(domain) \in DOMAIN domainToIps
    /\ Cardinality(domainToIps[toLowerCase(domain)]) > 0
getStats ==
    [totalInjected |-> Cardinality(DOMAIN injectedRoutes),
     uniqueIps |-> Cardinality(DOMAIN injectedRoutes),
     uniqueDomains |-> Cardinality(DOMAIN domainToIps),
     conflictingIps |-> Cardinality(getConflictingIps)]
\* Everything a caller can read from the route manager.
Observable ==
    [routes |-> getInjectedRoutes,
     forDomain |-> [d \in Domains |-> getRoutesForDomain(d)],
     hasForDomain |-> [d \in Domains |-> hasRoutesForDomain(d)],
     stats |-> getStats]

\* ------------------------------------------------- operations in flight
\* kind: the route-manager method; call: the adapter method it awaits;
\* pc: fetch (awaiting the dump), set (awaiting wg set). ips: the argument of
\* the adapter call. buf: the list to write. pre: what the call saw (history).
Idle == [kind |-> "idle", call |-> "none", pc |-> "idle", domain |-> "", ips |-> << >>,
         ttl |-> 0, buf |-> << >>, pre |-> << >>]
OpIds == 1..MaxOps
HasFree == \E i \in OpIds : ops[i] = Idle
FreeSlot == CHOOSE i \in OpIds : ops[i] = Idle /\ \A j \in OpIds : ops[j] = Idle => i <= j
NewOp(kind, call, domain, ips, ttl, pre) ==
    [kind |-> kind, call |-> call, pc |-> "fetch", domain |-> domain, ips |-> ips,
     ttl |-> ttl, buf |-> << >>, pre |-> pre]
Launch(op) == ops' = [ops EXCEPT ![FreeSlot] = op]
NoOutcome == [kind |-> "none", result |-> "none"]
Done(kind, result) == outcome' = [kind |-> kind, result |-> result]
Pending == outcome' = NoOutcome
\* a route-manager method is invoked / a callback of an operation in flight runs
Invoke == calls < MaxCalls /\ calls' = calls + 1 /\ records' = records
Callback == calls' = calls /\ records' = records

RECURSIVE Count(_, _)
Count(s, x) ==
    IF s = << >> THEN 0 ELSE (IF Head(s) = x THEN 1 ELSE 0) + Count(Tail(s), x)

\* the ips left with an unmatched conflict-detected after the events es
RECURSIVE Unmatched(_, _)
Unmatched(es, open) ==
    IF es = << >> THEN open
    ELSE Unmatched(Tail(es),
                   IF Head(es).type = "conflict-detected" THEN open \cup {Head(es).ip}
                   ELSE IF Head(es).type = "conflict-resolved" THEN open \ {Head(es).ip}
                   ELSE open)

\* History variables, updated by every step; adds is the argument of the
\* addAllowedIps call the step makes (<< >> when it makes none).
HistoryUpdate(adds) ==
    /\ addCalls' = [c \in Cidrs |->
                       IF c \in DOMAIN injectedRoutes' THEN addCalls[c] + Count(adds, c)
                       ELSE 0]
    /\ trackedAtConflict' =
         {c \in Cidrs :
            /\ c \in DOMAIN injectedRoutes /\ c \in DOMAIN injectedRoutes'
            /\ \E ip \in DOMAIN conflicts' : IpWithMask(ip) = c
            /\ \/ c \in trackedAtConflict
               \/ \E k \in 1..Len(emitted') :
                     /\ emitted'[k].type = "conflict-detected"
                     /\ IpWithMask(emitted'[k].ip) = c}
    /\ userAllowedIps' = userAllowedIps
    /\ started' = (started \/ outcome'.kind = "start")
    /\ unmatched' = Unmatched(emitted', unmatched)
\* a step of the route manager, the VPN adapter or the conflict detector:
\* none of them touches the matcher or the DNS proxy
History(adds) ==
    HistoryUpdate(adds) /\ UNCHANGED <<matcherVars, dnsVars, sniVars, sysVars, appVars>>

\* ---------------------------------------------------------- route manager
\* The three outcomes of one pass of injectRoutes' for-loop; st carries the
\* tables, the ipsToInject buffer and the events emitted so far.
\* emit('route-skipped', { ip, domain, reason: 'conflict' })
SkipConflict(st, ip, normalizedDomain) ==
    [st EXCEPT !.events = Append(@, [type |-> "route-skipped", ip |-> ip,
                                     domain |-> normalizedDomain,
                                     reason |-> "conflict"])]
\* Variant: the ttl is refreshed whichever domain injects.
RefreshExistingAnyDomain(st, ipWithMask, normalizedDomain, ttl) ==
    [st EXCEPT !.injectedRoutes[ipWithMask].ttl = ttl,
               !.injectedRoutes[ipWithMask].expiresAt = now + ttl * MsPerSecond]
\* if (existing.domain === normalizedDomain) { existing.ttl = ...; expiresAt = ... }
RefreshExisting(st, ipWithMask, normalizedDomain, ttl) ==
    IF st.injectedRoutes[ipWithMask].domain = normalizedDomain
    THEN [st EXCEPT !.injectedRoutes[ipWithMask].ttl = ttl,
                    !.injectedRoutes[ipWithMask].expiresAt = now + ttl * MsPerSecond]
    ELSE st
\* ipsToInject.push; injectedRoutes.set; domainToIps.set
TrackRoute(st, ipWithMask, normalizedDomain, ttl) ==
    LET route == [ip |-> ipWithMask, domain |-> normalizedDomain, injectedAt |-> now,
                  ttl |-> ttl, expiresAt |-> now + ttl * MsPerSecond]
        domainIps == IF normalizedDomain \in DOMAIN st.domainToIps
                     THEN st.domainToIps[normalizedDomain] ELSE {}
    IN [st EXCEPT !.ipsToInject = Append(@, ipWithMask),
                  !.injectedRoutes = MapSet(@, ipWithMask, route),
                  !.domainToIps = MapSet(@, normalizedDomain, domainIps \cup {ipWithMask})]

\* Variant: the conflict branch emits route-skipped but does not `continue`.
InjectIterNoContinue(st, ip, normalizedDomain, ttl) ==
    LET ipWithMask == IpWithMask(ip)
        st1 == IF hasConflict(ip) THEN SkipConflict(st, ip, normalizedDomain) ELSE st
    IN IF ipWithMask \in DOMAIN st1.injectedRoutes
       THEN RefreshExisting(st1, ipWithMask, normalizedDomain, ttl)
       ELSE IF includes(originalAllowedIps, ipWithMask)
       THEN st1
       ELSE TrackRoute(st1, ipWithMask, normalizedDomain, ttl)

\* Variant: the already-injected check runs before the conflict check.
InjectIterRefreshFirst(st, ip, normalizedDomain, ttl) ==
    LET ipWithMask == IpWithMask(ip)
    IN IF ipWithMask \in DOMAIN st.injectedRoutes
       THEN RefreshExisting(st, ipWithMask, normalizedDomain, ttl)
       ELSE IF hasConflict(ip)
       THEN SkipConflict(st, ip, normalizedDomain)
       ELSE IF includes(originalAllowedIps, ipWithMask)
       THEN st
       ELSE TrackRoute(st, ipWithMask, normalizedDomain, ttl)

\* Variant: no already-injected check.
InjectIterNoExistingCheck(st, ip, normalizedDomain, ttl) ==
    LET ipWithMask == IpWithMask(ip)
    IN IF hasConflict(ip)
       THEN SkipConflict(st, ip, normalizedDomain)
       ELSE IF includes(originalAllowedIps, ipWithMask)
       THEN st
       ELSE TrackRoute(st, ipWithMask, normalizedDomain, ttl)

\* One pass of injectRoutes' for-loop.
InjectIter(st, ip, normalizedDomain, ttl) ==
    LET ipWithMask == IpWithMask(ip)
    IN IF hasConflict(ip)
       THEN SkipConflict(st, ip, normalizedDomain)
       ELSE IF ipWithMask \in DOMAIN st.injectedRoutes
       THEN RefreshExisting(st, ipWithMask, normalizedDomain, ttl)
       ELSE IF includes(originalAllowedIps, ipWithMask)
       THEN st
       ELSE TrackRoute(st, ipWithMask, normalizedDomain, ttl)

RECURSIVE InjectLoop(_, _, _, _)
InjectLoop(st, ips, normalizedDomain, ttl) ==
    IF ips = << >> THEN st
    ELSE InjectLoop(InjectIter(st, Head(ips), normalizedDomain, ttl), Tail(ips),
                    normalizedDomain, ttl)

\* injectRoutes up to `await this.wireguard.addAllowedIps(ipsToInject)`
injectRoutes(domain, ips, ttl) ==
    LET normalizedDomain == toLowerCase(domain)
        st == InjectLoop([injectedRoutes |-> injectedRoutes, domainToIps |-> domainToIps,
                          ipsToInject |-> << >>, events |-> << >>],
                         ips, normalizedDomain, ttl)
    IN /\ injectedRoutes' = st.injectedRoutes
       /\ domainToIps' = st.domainToIps
       /\ emitted' = st.events
       /\ IF Len(st.ipsToInject) > 0
          THEN /\ HasFree
               /\ Launch(NewOp("injectRoutes", "add", normalizedDomain, st.ipsToInject,
                               ttl, Observable))
               /\ Pending
          ELSE /\ UNCHANGED ops
               /\ Done("injectRoutes", "ok")
       /\ UNCHANGED <<peer, now, originalAllowedIps, cleanupTimer, liveTimers, cdVars>>
       /\ Invoke
       /\ History(st.ipsToInject)

\* removeRoutesForDomain up to `await this.wireguard.removeAllowedIps(ipsToRemove)`
removeRoutesForDomain(domain) ==
    LET normalizedDomain == toLowerCase(domain)
    IN /\ emitted' = << >>
       /\ IF normalizedDomain \notin DOMAIN domainToIps
             \/ Cardinality(domainToIps[normalizedDomain]) = 0
          THEN /\ UNCHANGED ops
               /\ Done("removeRoutesForDomain", "ok")
          ELSE /\ HasFree
               /\ Launch(NewOp("removeRoutesForDomain", "remove", normalizedDomain,
                               ArrayFrom(domainToIps[normalizedDomain]), 0, << >>))
               /\ Pending
       /\ UNCHANGED <<peer, now, rmVars, cdVars>>
       /\ Invoke
       /\ History(<< >>)

\* removeRoute up to `await this.wireguard.removeAllowedIps([ipWithMask])`
removeRoute(ip) ==
    LET ipWithMask == IpWithMask(ip)
    IN /\ emitted' = << >>
       /\ IF ipWithMask \notin DOMAIN injectedRoutes
          THEN /\ UNCHANGED ops
               /\ Done("removeRoute", "ok")
          ELSE /\ HasFree
               /\ Launch(NewOp("removeRoute", "remove", injectedRoutes[ipWithMask].domain,
                               <<ipWithMask>>, 0, << >>))
               /\ Pending
       /\ UNCHANGED <<peer, now, rmVars, cdVars>>
       /\ Invoke
       /\ History(<< >>)

\* clearAllRoutes up to `await this.wireguard.removeAllowedIps(allInjectedIps)`;
\* kind is "clearAllRoutes", or "stop" when stop() makes the call
ClearCall(kind) ==
    IF Cardinality(DOMAIN injectedRoutes) = 0
    THEN /\ UNCHANGED ops
         /\ Done(kind, "ok")
         /\ emitted' = IF kind = "stop" THEN <<[type |-> "stopped"]>> ELSE << >>
    ELSE /\ HasFree
         /\ Launch(NewOp(kind, "remove", "", ArrayFrom(DOMAIN injectedRoutes), 0, << >>))
         /\ Pending
         /\ emitted' = << >>

clearAllRoutes ==
    /\ ClearCall("clearAllRoutes")
    /\ UNCHANGED <<peer, now, rmVars, cdVars>>
    /\ Invoke
    /\ History(<< >>)

\* stop(): stopCleanupTimer, then clearAllRoutes
stop ==
    /\ cleanupTimer' = FALSE
    /\ liveTimers' = IF cleanupTimer THEN liveTimers - 1 ELSE liveTimers
    /\ ClearCall("stop")
    /\ UNCHANGED <<peer, now, tableVars, originalAllowedIps, cdVars>>
    /\ Invoke
    /\ History(<< >>)

IsExpired(ip) == injectedRoutes[ip].expiresAt < now

\* cleanupExpiredRoutes up to `await this.wireguard.removeAllowedIps(expiredIps)`
CleanupCall ==
    LET expiredIps == {ip \in DOMAIN injectedRoutes : IsExpired(ip)}
    IN /\ emitted' = << >>
       /\ IF Cardinality(expiredIps) > 0
          THEN /\ HasFree
               /\ Launch(NewOp("cleanupExpiredRoutes", "remove", "", ArrayFrom(expiredIps),
                               0, trackedAtConflict))
               /\ Pending
          ELSE /\ UNCHANGED ops
               /\ Done("cleanupExpiredRoutes", "ok")
       /\ UNCHANGED <<peer, now, rmVars, cdVars>>
       /\ History(<< >>)

\* one call of the method, counted
cleanupExpiredRoutes == CleanupCall /\ Invoke

\* start() up to `await this.wireguard.getAllowedIps()`
start ==
    /\ liveTimers < MaxTimers
    /\ HasFree
    /\ Launch(NewOp("start", "get", "", << >>, 0, << >>))
    /\ emitted' = << >>
    /\ UNCHANGED <<peer, now, rmVars, cdVars>>
    /\ Pending
    /\ Invoke
    /\ History(<< >>)

\* ------------------------------------------- continuations after the await
\* domainIps.delete(ip); if (domainIps.size === 0) this.domainToIps.delete(domain)
DropFromDomain(d2i, domain, ip) ==
    IF domain \in DOMAIN d2i
    THEN IF d2i[domain] \ {ip} = {} THEN MapDelete(d2i, domain)
         ELSE MapSet(d2i, domain, d2i[domain] \ {ip})
    ELSE d2i

\* the catch block of injectRoutes: rollback of the provisional inserts
RECURSIVE Rollback(_, _, _)
Rollback(t, ips, normalizedDomain) ==
    IF ips = << >> THEN t
    ELSE Rollback(
           [injectedRoutes |-> MapDelete(t.injectedRoutes, Head(ips)),
            domainToIps |-> IF normalizedDomain \in DOMAIN t.domainToIps
                            THEN MapSet(t.domainToIps, normalizedDomain,
                                        t.domainToIps[normalizedDomain] \ {Head(ips)})
                            ELSE t.domainToIps],
           Tail(ips), normalizedDomain)

\* Variant: the loop prunes the domain map but misses injectedRoutes.delete(ip).
RECURSIVE DropExpiredKeepsRoute(_, _)
DropExpiredKeepsRoute(t, ips) ==
    IF ips = << >> THEN t
    ELSE LET ip == Head(ips)
         IN DropExpiredKeepsRoute(
              [injectedRoutes |-> t.injectedRoutes,
               domainToIps |-> IF ip \in DOMAIN t.injectedRoutes
                               THEN DropFromDomain(t.domainToIps,
                                                   t.injectedRoutes[ip].domain, ip)
                               ELSE t.domainToIps],
              Tail(ips))

\* the for-loop of cleanupExpiredRoutes after a successful removal
RECURSIVE DropExpired(_, _)
DropExpired(t, ips) ==
    IF ips = << >> THEN t
    ELSE LET ip == Head(ips)
         IN DropExpired(
              [injectedRoutes |-> MapDelete(t.injectedRoutes, ip),
               domainToIps |-> IF ip \in DOMAIN t.injectedRoutes
                               THEN DropFromDomain(t.domainToIps,
                                                   t.injectedRoutes[ip].domain, ip)
                               ELSE t.domainToIps],
              Tail(ips))

Tables == [injectedRoutes |-> injectedRoutes, domainToIps |-> domainToIps]
Cleared == [injectedRoutes |-> EmptyMap, domainToIps |-> EmptyMap]
ErrorEvent == [type |-> "error"]

\* What the awaiting method does when the adapter call of op resolves (ok) or
\* rejects (~ok): the tables, the events emitted, and how its own promise ends.
OnReturn(op, ok) ==
    CASE op.kind = "injectRoutes" ->
           IF ok
           THEN [tables |-> Tables, result |-> "ok",
                 events |-> <<[type |-> "routes-injected", domain |-> op.domain,
                               ips |-> op.ips, ttl |-> op.ttl]>>]
           ELSE [tables |-> Rollback(Tables, op.ips, op.domain), result |-> "error",
                 events |-> << >>]
      [] op.kind = "removeRoutesForDomain" ->
           IF ok
           THEN [tables |-> [injectedRoutes |-> MapDeleteAll(injectedRoutes,
                                                             SeqToSet(op.ips)),
                             domainToIps |-> MapDelete(domainToIps, op.domain)],
                 result |-> "ok",
                 events |-> <<[type |-> "routes-removed", domain |-> op.domain,
                               ips |-> op.ips]>>]
           ELSE [tables |-> Tables, result |-> "error", events |-> <<ErrorEvent>>]
      [] op.kind = "removeRoute" ->
           IF ok
           THEN [tables |-> [injectedRoutes |-> MapDelete(injectedRoutes, op.ips[1]),
                             domainToIps |-> DropFromDomain(domainToIps, op.domain,
                                                            op.ips[1])],
                 result |-> "ok",
                 events |-> <<[type |-> "route-removed", ip |-> op.ips[1],
                               domain |-> op.domain]>>]
           ELSE [tables |-> Tables, result |-> "error", events |-> <<ErrorEvent>>]
      [] op.kind = "clearAllRoutes" ->
           IF ok
           THEN [tables |-> Cleared, result |-> "ok",
                 events |-> <<[type |-> "routes-cleared", count |-> Len(op.ips)]>>]
           ELSE [tables |-> Tables, result |-> "error", events |-> <<ErrorEvent>>]
      [] op.kind = "stop" ->
           IF ok
           THEN [tables |-> Cleared, result |-> "ok",
                 events |-> <<[type |-> "routes-cleared", count |-> Len(op.ips)],
                              [type |-> "stopped"]>>]
           ELSE [tables |-> Tables, result |-> "error", events |-> <<ErrorEvent>>]
      [] op.kind = "cleanupExpiredRoutes" ->
           IF ok
           THEN [tables |-> DropExpired(Tables, op.ips), result |-> "ok",
                 events |-> <<[type |-> "routes-expired", ips |-> op.ips,
                               count |-> Len(op.ips)]>>]
           ELSE [tables |-> Tables, result |-> "ok", events |-> <<ErrorEvent>>]

\* Variant: the continuation of the success path runs whether the adapter
\* call resolved or rejected.
FinishOptimistic(i, ok) ==
    LET r == OnReturn(ops[i], TRUE)
    IN /\ injectedRoutes' = r.tables.injectedRoutes
       /\ domainToIps' = r.tables.domainToIps
       /\ emitted' = r.events
       /\ Done(ops[i].kind, r.result)
       /\ ops' = [ops EXCEPT ![i] = Idle]
       /\ UNCHANGED <<originalAllowedIps, cleanupTimer, liveTimers>>

\* The adapter call of operation i is over: run the continuation, free the slot.
Finish(i, ok) ==
    LET r == OnReturn(ops[i], ok)
    IN /\ injectedRoutes' = r.tables.injectedRoutes
       /\ domainToIps' = r.tables.domainToIps
       /\ emitted' = r.events
       /\ Done(ops[i].kind, r.result)
       /\ ops' = [ops EXCEPT ![i] = Idle]
       /\ UNCHANGED <<originalAllowedIps, cleanupTimer, liveTimers>>

\* start() after `await this.wireguard.getAllowedIps()`: keep the snapshot,
\* emit started, startCleanupTimer
FinishStart(i, allowedIps) ==
    /\ originalAllowedIps' = allowedIps
    /\ emitted' = <<[type |-> "started", originalIps |-> allowedIps]>>
    /\ cleanupTimer' = TRUE
    /\ liveTimers' = liveTimers + 1
    /\ Done("start", "ok")
    /\ ops' = [ops EXCEPT ![i] = Idle]
    /\ UNCHANGED tableVars

\* ------------------------------------------------------------ VPN adapter
\* The dump fails (getInterfaces returns []), so getInterface returns null:
\* getAllowedIps returns [], addAllowedIps and removeAllowedIps throw.
FetchFail(i) ==
    /\ ops[i].pc = "fetch"
    /\ IF ops[i].call = "get" THEN FinishStart(i, << >>) ELSE Finish(i, FALSE)
    /\ UNCHANGED <<peer, now, cdVars>>
    /\ Callback
    /\ History(<< >>)

\* addAllowedIps after the dump: the ips not yet in the peer, appended
addNewList(op, allowedIps) ==
    LET NotExisting(ip) == ~includes(allowedIps, IpWithMask(ip))
    IN allowedIps \o SelectSeq(op.ips, NotExisting)
\* removeAllowedIps after the dump: the peer's ips that are not to be removed
removeNewList(op, allowedIps) ==
    LET NotRemoved(ip) == ~includes(op.ips, ip)
    IN SelectSeq(allowedIps, NotRemoved)
NewList(op, allowedIps) ==
    IF op.call = "add" THEN addNewList(op, allowedIps) ELSE removeNewList(op, allowedIps)

\* what parseWgDump reads from `wg show all dump`: the peer's allowed-ips
\* column, split(','); wg lists the entries in an order of its own
WgDump == ArrayFrom(peer)

\* The dump's callback: compute the new list from the allowed-ips read;
\* return at once when nothing is to add or remove, otherwise run `wg set`.
FetchReturn(i) ==
    /\ ops[i].pc = "fetch"
    /\ IF ops[i].call = "get"
       THEN FinishStart(i, WgDump)
       ELSE IF Len(NewList(ops[i], WgDump)) = Len(WgDump)
       THEN Finish(i, TRUE)
       ELSE /\ ops' = [ops EXCEPT ![i].pc = "set", ![i].buf = NewList(ops[i], WgDump)]
            /\ emitted' = << >>
            /\ UNCHANGED <<rmVars>>
            /\ Pending
    /\ UNCHANGED <<peer, now, cdVars>>
    /\ Callback
    /\ History(<< >>)

\* setAllowedIps: ips.length > 0 ? ips.join(',') : '0.0.0.0/32'
setAllowedIps(ips) == IF Len(ips) > 0 THEN SeqToSet(ips) ELSE {Sentinel}

\* `wg set` fails, plain and with sudo: setAllowedIps throws
SetFail(i) ==
    /\ ops[i].pc = "set"
    /\ Finish(i, FALSE)
    /\ UNCHANGED <<peer, now, cdVars>>
    /\ Callback
    /\ History(<< >>)

\* `wg set <iface> peer <key> allowed-ips <csv>` succeeds and its callback runs
SetReturn(i) ==
    /\ ops[i].pc = "set"
    /\ peer' = setAllowedIps(ops[i].buf)
    /\ Finish(i, TRUE)
    /\ UNCHANGED <<now, cdVars>>
    /\ Callback
    /\ History(<< >>)

\* ------------------------------------------------------------ environment
\* The DNS proxy records the A records of a reply (recordMappings), with the
\* matcher's decision for the name.
RecordMappings(domain, ips) ==
    \E window \in BOOLEAN :
    LET cd == recordMappings(CdState(window), domain, ips, MatchTunnel(domain))
    IN /\ ipToDomains' = cd.ipToDomains
       /\ cdDomainToIps' = cd.domainToIps
       /\ conflicts' = cd.conflicts
       /\ emitted' = cd.events
       /\ records < MaxRecords
       /\ records' = records + 1
       /\ UNCHANGED <<peer, now, rmVars, ops, calls>>
       /\ Pending
       /\ History(<< >>)

AdvanceClock ==
    /\ now < MaxClock * ClockStepMs
    /\ now' = now + ClockStepMs
    /\ emitted' = << >>
    /\ UNCHANGED <<peer, rmVars, cdVars, ops>>
    /\ Pending
    /\ Callback
    /\ History(<< >>)

\* ------------------------------------------------------------------ system
\* a DnsProxy as its constructor leaves it
DnsConstructed ==
    /\ server = NoSocket
    /\ sockets = [s \in SocketIds |-> "none"]
    /\ isRunning = FALSE
    /\ queries = [q \in QueryIds |-> NoQuery]
\* a SniProxy as its constructor leaves it
SniConstructed ==
    /\ sniRunning = FALSE
    /\ sniServer = "null"
    /\ activeConnections = {}
    /\ connections = [c \in ConnIds |-> NoConn]
\* main.ts loaded, app not yet ready; nothing persisted by an earlier run
Booting == [pc |-> "boot", starts |-> 0, crashes |-> 0, result |-> "none"]
MainLoaded ==
    /\ dnsBackup = NoBackup
    /\ app = Booting
\* the SystemDns singleton as its constructor leaves it, on a Linux host
\* without systemd-resolved whose resolv.conf names one server
SystemDnsConstructed ==
    /\ platform = "linux"
    /\ os = [NoOs EXCEPT !.resolvConf = <<"nameserver 1.1.1.1">>]
    /\ found = os
    /\ backup = NoBackup
    /\ isConfigured = FALSE
    /\ lifecycle = << >>
    /\ MainLoaded

Init ==
    /\ peer \in InitialPeers
    /\ userAllowedIps = peer
    /\ now = 0
    /\ injectedRoutes = EmptyMap
    /\ domainToIps = EmptyMap
    /\ originalAllowedIps = << >>
    /\ cleanupTimer = FALSE
    /\ liveTimers = 0
    /\ ipToDomains = EmptyMap
    /\ cdDomainToIps = EmptyMap
    /\ conflicts = EmptyMap
    /\ ops = [i \in OpIds |-> Idle]
    /\ emitted = << >>
    /\ outcome = NoOutcome
    /\ calls = 0
    /\ records = 0
    /\ started = FALSE
    /\ unmatched = {}
    /\ addCalls = [c \in Cidrs |-> 0]
    /\ trackedAtConflict = {}
    /\ rules = << >>
    /\ lastMatch = NoMatchCall
    /\ loaded = NotLoaded
    /\ DnsConstructed
    /\ SniConstructed
    /\ SystemDnsConstructed

\* The state after start() has returned on a new route manager: the snapshot
\* taken, one interval timer running.
RouteManagerStarted ==
    /\ peer \in InitialPeers
    /\ userAllowedIps = peer
    /\ now = 0
    /\ injectedRoutes = EmptyMap
    /\ domainToIps = EmptyMap
    /\ originalAllowedIps = ArrayFrom(peer)
    /\ cleanupTimer = TRUE
    /\ liveTimers = 1
    /\ ipToDomains = EmptyMap
    /\ cdDomainToIps = EmptyMap
    /\ conflicts = EmptyMap
    /\ ops = [i \in OpIds |-> Idle]
    /\ emitted = << >>
    /\ outcome = NoOutcome
    /\ calls = 0
    /\ records = 0
    /\ started = TRUE
    /\ unmatched = {}
    /\ addCalls = [c \in Cidrs |-> 0]
    /\ trackedAtConflict = {}
    /\ rules = << >>
    /\ lastMatch = NoMatchCall
    /\ loaded = NotLoaded
\* ... and the DNS proxy constructed, not started
InitStarted ==
    /\ RouteManagerStarted
    /\ DnsConstructed
    /\ SniConstructed
    /\ SystemDnsConstructed

Start == start
Stop == stop
InjectRoutes == \E domain \in InputDomains, ips \in IpLists, ttl \in TTLs :
                    injectRoutes(domain, ips, ttl)
RemoveRoutesForDomain == \E domain \in InputDomains : removeRoutesForDomain(domain)
RemoveRoute == \E ip \in RawIps : removeRoute(ip)
ClearAllRoutes == clearAllRoutes
\* an interval timer fires (startCleanupTimer's callback)
CleanupTick == liveTimers > 0 /\ cleanupExpiredRoutes
DnsRecord == \E domain \in InputDomains : RecordMappings(domain, Resolve(domain))
VpnFetchFail == \E i \in OpIds : FetchFail(i)
VpnFetchReturn == \E i \in OpIds : FetchReturn(i)
VpnSetFail == \E i \in OpIds : SetFail(i)
VpnSetReturn == \E i \in OpIds : SetReturn(i)

\* The route manager against the VPN: every method, any interleaving, every
\* VPN command free to fail.
Next ==
    \/ Start
    \/ Stop
    \/ InjectRoutes
    \/ RemoveRoutesForDomain
    \/ RemoveRoute
    \/ ClearAllRoutes
    \/ CleanupTick
    \/ AdvanceClock
    \/ VpnFetchFail
    \/ VpnFetchReturn
    \/ VpnSetFail
    \/ VpnSetReturn

Spec == Init /\ [][Next]_vars

\* The started route manager against the conflict detector: injections, DNS
\* replies and cleanup ticks, any interleaving, every VPN command free to fail.
ConflictInject == calls < MaxConflictCalls /\ InjectRoutes
ConflictCleanup == calls < MaxConflictCalls /\ CleanupTick
NextConflict ==
    \/ ConflictInject
    \/ DnsRecord
    \/ ConflictCleanup
    \/ AdvanceClock
    \/ VpnFetchFail
    \/ VpnFetchReturn
    \/ VpnSetFail
    \/ VpnSetReturn

SpecConflict == InitStarted /\ [][NextConflict]_vars

\* The conflict detector alone: every public method, with and without the
\* main window's listeners, and time passing beyond mappingTtl.
DetectorStep(cd, kind) ==
    /\ records < MaxDetectorOps
    /\ records' = records + 1
    /\ ipToDomains' = cd.ipToDomains
    /\ cdDomainToIps' = cd.domainToIps
    /\ conflicts' = cd.conflicts
    /\ emitted' = cd.events
    /\ Done(kind, "ok")
    /\ UNCHANGED <<peer, now, rmVars, ops, calls>>
    /\ History(<< >>)
RecordOne(window, domain, ip, tunnel) ==
    DetectorStep(recordMapping(CdState(window), domain, ip, tunnel), "recordMapping")
RecordBatch(window, domain, ips, tunnel) ==
    DetectorStep(recordMappings(CdState(window), domain, ips, tunnel), "recordMappings")
RemoveDomainCall(window, domain) ==
    DetectorStep(removeDomain(CdState(window), domain), "removeDomain")
DetectorClearCall(window) == DetectorStep(clear(CdState(window)), "clear")
GetConflictsCall(window) == DetectorStep(getConflicts(CdState(window)), "getConflicts")

DetectorRecord == \E window, tunnel \in BOOLEAN, domain \in InputDomains, ip \in RawIps :
                      RecordOne(window, domain, ip, tunnel)
DetectorRecordBatch ==
    \E window, tunnel \in BOOLEAN, domain \in InputDomains, ips \in IpLists :
        RecordBatch(window, domain, ips, tunnel)
DetectorRemoveDomain == \E window \in BOOLEAN, domain \in InputDomains :
                            RemoveDomainCall(window, domain)
DetectorClear == \E window \in BOOLEAN : DetectorClearCall(window)
DetectorGetConflicts == \E window \in BOOLEAN : GetConflictsCall(window)
AgeMappings ==
    /\ now < MaxAgeSteps * AgeStepMs
    /\ now' = now + AgeStepMs
    /\ emitted' = << >>
    /\ UNCHANGED <<peer, rmVars, cdVars, ops>>
    /\ Pending
    /\ Callback
    /\ History(<< >>)
NextDetector ==
    \/ DetectorRecord
    \/ DetectorRecordBatch
    \/ DetectorRemoveDomain
    \/ DetectorClear
    \/ DetectorGetConflicts
    \/ AgeMappings
SpecDetector == Init /\ [][NextDetector]_vars

\* The started route manager and its interval timer: the timer fires for as
\* long as it is alive (its ticks are not counted), every VPN command may
\* fail, and a command that is tried again and again eventually succeeds.
ExpiryInject == calls < MaxExpiryCalls /\ InjectRoutes
TimerTick == liveTimers > 0 /\ CleanupCall /\ Callback
NextExpiry ==
    \/ ExpiryInject
    \/ TimerTick
    \/ AdvanceClock
    \/ VpnFetchFail
    \/ VpnFetchReturn
    \/ VpnSetFail
    \/ VpnSetReturn
ExpiryFairness ==
    /\ SF_vars(TimerTick)
    /\ \A i \in OpIds : SF_vars(FetchReturn(i)) /\ SF_vars(SetReturn(i))
SpecExpiry == InitStarted /\ [][NextExpiry]_vars /\ ExpiryFairness

\* ------------------------------------------------------------- properties
HasEvent(es, type) == \E k \in 1..Len(es) : es[k].type = type
AllIdle == \A i \in OpIds : ops[i] = Idle
Tracked(c) == c \in DOMAIN injectedRoutes
\* events a route-manager method emits when its VPN call has resolved
MutationEvents == {"routes-injected", "routes-removed", "route-removed",
                   "routes-cleared", "routes-expired"}
MutationCompleted == \E k \in 1..Len(emitted) : emitted[k].type \in MutationEvents

\* C1: when a VPN mutation has just completed successfully and no other VPN
\* call is in flight, every tracked ip/32 is among the peer's allowed-ips.
C1_TrackedRoutesInPeer ==
    (MutationCompleted /\ AllIdle) => \A c \in DOMAIN injectedRoutes : c \in peer

\* C2: at most one VPN read-modify-write is in progress: no two operations
\* have both read the peer's allowed-ips and not yet written their new list.
C2_OneReadModifyWrite ==
    Cardinality({i \in OpIds : ops[i].pc = "set"}) <= 1

\* C3: no tracked ip/32 is a member of originalAllowedIps.
C3_TrackedNotOriginal ==
    \A c \in DOMAIN injectedRoutes : ~includes(originalAllowedIps, c)

\* C4: every allowed-ips entry the user had configured is still on the peer.
C4_UserEntriesKept ==
    \A c \in userAllowedIps : c \in peer

\* C5: once start() has returned, when stop() returns without error the
\* peer's allowed-ips are, as a set, the snapshot start() captured.
C5_StopRestoresSnapshot ==
    (started /\ outcome = [kind |-> "stop", result |-> "ok"])
        => peer = SeqToSet(originalAllowedIps)

\* the operation a step has put in flight names c in its adapter call
PassedToAdapter(c) == \E i \in OpIds : ops'[i] # ops[i] /\ includes(ops'[i].ips, c)
SkippedEvent(ip, domain) ==
    [type |-> "route-skipped", ip |-> ip, domain |-> toLowerCase(domain),
     reason |-> "conflict"]
InjectsAround(domain, ips, ttl) ==
    \A k \in 1..Len(ips) :
        LET ip == ips[k]
            c == IpWithMask(ip)
        IN IF hasConflict(ip)
           THEN /\ includes(emitted', SkippedEvent(ip, domain))
                /\ ~PassedToAdapter(c)
                /\ Tracked(c)' => Tracked(c)
                /\ \A d \in DOMAIN domainToIps' :
                      c \in domainToIps'[d] => d \in DOMAIN domainToIps /\ c \in domainToIps[d]
           ELSE (~Tracked(c) /\ ~includes(originalAllowedIps, c))
                    => Tracked(c)' /\ PassedToAdapter(c)

\* C6: an injectRoutes call emits route-skipped {ip, domain, reason: conflict}
\* for every ip of its list with hasConflict(ip), does not pass it to
\* addAllowedIps and adds no table entry for it; the ips of the same call
\* without conflict (not tracked, not original) are tracked and passed on.
C6_ConflictSkipped ==
    [][\A domain \in InputDomains, ips \in IpLists, ttl \in TTLs :
          injectRoutes(domain, ips, ttl) => InjectsAround(domain, ips, ttl)]_vars

C6_Witness ==
    /\ hasConflict("10.0.0.1")
    /\ includes(emitted, SkippedEvent("10.0.0.1", "a.test"))
    /\ ~Tracked("10.0.0.1/32")
    /\ Tracked("10.0.0.2/32")
    /\ \E i \in OpIds : /\ ops[i].kind = "injectRoutes"
                        /\ ops[i].pc = "fetch"
                        /\ ops[i].ips = <<"10.0.0.2/32">>

\* a cleanup tick ends in this step without error: at once, nothing having
\* expired, or when its removeAllowedIps call resolves
TickCompleted ==
    \/ /\ outcome' = [kind |-> "cleanupExpiredRoutes", result |-> "ok"]
       /\ ops' = ops
    \/ \E i \in OpIds : /\ ops[i].kind = "cleanupExpiredRoutes"
                        /\ ops'[i] = Idle
                        /\ HasEvent(emitted', "routes-expired")

\* C7: a route that was tracked when a conflict on its ip was detected is no
\* longer tracked, nor on the peer, once a cleanup tick has completed with no
\* VPN call left in flight.
C7_ConflictingRouteRemovedByTick ==
    [][\A c \in trackedAtConflict :
          (TickCompleted /\ AllIdle')
              => (c \notin DOMAIN injectedRoutes' /\ c \notin peer')]_vars

\* C8: for every ip with hasConflict(ip), a tracked route for ip/32 was
\* tracked when the conflict was detected, and no step inserts a route for
\* it or refreshes its ttl while the conflict lasts.
C8_NoInsertWhileConflicting ==
    /\ [](\A ip \in RawIps :
            (hasConflict(ip) /\ Tracked(IpWithMask(ip)))
                => IpWithMask(ip) \in trackedAtConflict)
    /\ [][\A ip \in RawIps :
            (hasConflict(ip) /\ Tracked(IpWithMask(ip))')
                => /\ Tracked(IpWithMask(ip))
                   /\ injectedRoutes'[IpWithMask(ip)] = injectedRoutes[IpWithMask(ip)]]_vars

C8_Witness ==
    /\ hasConflict("10.0.0.1")
    /\ "10.0.0.1/32" \in trackedAtConflict
    /\ Tracked("10.0.0.1/32")
    /\ injectedRoutes["10.0.0.1/32"].expiresAt =
         injectedRoutes["10.0.0.1/32"].injectedAt
           + injectedRoutes["10.0.0.1/32"].ttl * MsPerSecond
    /\ now > injectedRoutes["10.0.0.1/32"].injectedAt
    /\ includes(emitted, SkippedEvent("10.0.0.1", "a.test"))

\* C9: when the addAllowedIps call of an injectRoutes fails, the call ends in
\* error and what getInjectedRoutes, getRoutesForDomain, hasRoutesForDomain
\* and getStats return is what they returned before the call.
C9_FailedInjectRollsBack ==
    [][\A i \in OpIds :
          (ops[i].kind = "injectRoutes" /\ (FetchFail(i) \/ SetFail(i)))
              => /\ outcome' = [kind |-> "injectRoutes", result |-> "error"]
                 /\ Observable' = ops[i].pre]_vars

\* C11: a tracked route whose expiresAt has passed is eventually removed from
\* the table and from the peer's allowed-ips, unless it is refreshed; the
\* route manager is started and its timer ticks, and VPN commands that are
\* tried again and again eventually succeed.
C11_ExpiredEventuallyRemoved ==
    \A c \in Cidrs :
        (Tracked(c) /\ IsExpired(c))
            ~> \/ ~Tracked(c) /\ c \notin peer
               \/ Tracked(c) /\ ~IsExpired(c)

\* a tick's removal has been written to the VPN: nothing tracked, the peer
\* left with the placeholder entry
C11_Witness ==
    /\ HasEvent(emitted, "routes-expired")
    /\ injectedRoutes = EmptyMap
    /\ peer = {Sentinel}
    /\ now > 0

\* C12: when the removal call of a stop() fails, stop() ends in error and no
\* route remains tracked.
C12_FailedStopClearsTables ==
    [][\A i \in OpIds :
          (ops[i].kind = "stop" /\ (FetchFail(i) \/ SetFail(i)))
              => /\ outcome' = [kind |-> "stop", result |-> "error"]
                 /\ injectedRoutes' = EmptyMap
                 /\ domainToIps' = EmptyMap]_vars

\* C10: a tracked ip/32 has been named in exactly one addAllowedIps call
\* since it was tracked, and an injectRoutes(d, [x], ttl) that finds x tracked
\* for d adds no table entry and makes no VPN call.
C10_InjectIdempotent ==
    /\ [](\A c \in Cidrs : Tracked(c) => addCalls[c] = 1)
    /\ [][\A domain \in InputDomains, x \in RawIps, ttl \in TTLs :
            (/\ injectRoutes(domain, <<x>>, ttl)
             /\ Tracked(IpWithMask(x))
             /\ injectedRoutes[IpWithMask(x)].domain = toLowerCase(domain))
                => /\ DOMAIN injectedRoutes' = DOMAIN injectedRoutes
                   /\ domainToIps' = domainToIps
                   /\ ops' = ops
                   /\ addCalls' = addCalls]_vars

\* a second injectRoutes for the same domain and ip has returned: the route's
\* expiry was moved, and the ip was added once
C10_Witness ==
    /\ outcome = [kind |-> "injectRoutes", result |-> "ok"]
    /\ emitted = << >>
    /\ \E c \in Cidrs :
          /\ Tracked(c)
          /\ addCalls[c] = 1
          /\ c \in peer
          /\ c \notin userAllowedIps
          /\ injectedRoutes[c].expiresAt #
               injectedRoutes[c].injectedAt + injectedRoutes[c].ttl * MsPerSecond

\* ip has a fresh tunnel mapping and a fresh direct mapping
ShouldConflict(ip) ==
    /\ ip \in DOMAIN ipToDomains
    /\ \E k \in 1..Len(ipToDomains[ip]) :
           IsFresh(ipToDomains[ip][k]) /\ IsTunnel(ipToDomains[ip][k])
    /\ \E k \in 1..Len(ipToDomains[ip]) :
           IsFresh(ipToDomains[ip][k]) /\ IsDirect(ipToDomains[ip][k])
ConflictsExact(ip) == hasConflict(ip) <=> ShouldConflict(ip)

RECURSIVE Alternates(_, _)
Alternates(es, open) ==
    IF es = << >> THEN TRUE
    ELSE IF Head(es).type = "conflict-detected"
    THEN Head(es).ip \notin open /\ Alternates(Tail(es), open \cup {Head(es).ip})
    ELSE IF Head(es).type = "conflict-resolved"
    THEN Head(es).ip \in open /\ Alternates(Tail(es), open \ {Head(es).ip})
    ELSE Alternates(Tail(es), open)

\* C14: for each ip the events conflict-detected and conflict-resolved
\* alternate, starting with conflict-detected, across recordMapping,
\* recordMappings, removeDomain, clear and cleanup, with or without a listener
\* that re-enters getConflicts during emission.
C14_DetectedResolvedAlternate == [][Alternates(emitted', unmatched)]_vars
\* one recordMapping call that emitted conflict-detected for its ip and, from
\* the cleanup its listener re-entered, conflict-resolved for another ip
C14_Witness ==
    /\ outcome.kind = "recordMapping"
    /\ \E k, l \in 1..Len(emitted) :
           /\ k < l
           /\ emitted[k].type = "conflict-detected"
           /\ emitted[l].type = "conflict-resolved"
           /\ emitted[k].ip # emitted[l].ip

\* the conflict-detected events for ip among es
DetectedFor(es, ip) ==
    {k \in 1..Len(es) : es[k].type = "conflict-detected" /\ es[k].ip = ip}
\* the detector after record(first); record(second) from the current state
RecordTwice(window, first, second, ip) ==
    LET cd == recordMapping(CdState(window), first.domain, ip, first.tunnel)
    IN recordMapping(cd, second.domain, ip, second.tunnel)
\* what the claim compares of a conflict: its ip and the two sets of domains
ConflictOf(cd, ip) ==
    IF ip \in DOMAIN cd.conflicts
    THEN [ip |-> cd.conflicts[ip].ip,
          tunnelDomains |-> SeqToSet(cd.conflicts[ip].tunnelDomains),
          directDomains |-> SeqToSet(cd.conflicts[ip].directDomains)]
    ELSE [ip |-> "none", tunnelDomains |-> {}, directDomains |-> {}]

\* C15: from any reachable detector state where ip has no conflict, for
\* domains dA and dB with different normalized names, recording (dA, tunnel)
\* then (dB, direct) and recording (dB, direct) then (dA, tunnel) end with
\* the same conflict for ip, and each order emits conflict-detected for ip
\* exactly once.
C15_ConflictSymmetry ==
    \A window \in BOOLEAN, ip \in RawIps, dA, dB \in InputDomains :
        (toLowerCase(dA) # toLowerCase(dB) /\ ~hasConflict(ip)) =>
            LET a == [domain |-> dA, tunnel |-> TRUE]
                b == [domain |-> dB, tunnel |-> FALSE]
                ab == RecordTwice(window, a, b, ip)
                ba == RecordTwice(window, b, a, ip)
            IN /\ ip \in DOMAIN ab.conflicts
               /\ ConflictOf(ab, ip) = ConflictOf(ba, ip)
               /\ Cardinality(DetectedFor(ab.events, ip)) = 1
               /\ Cardinality(DetectedFor(ba.events, ip)) = 1
\* a conflict recorded direct side first, the other ip holding mappings too
C15_Witness ==
    \E ip \in DOMAIN conflicts :
        /\ Len(ipToDomains[ip]) = 2
        /\ IsDirect(ipToDomains[ip][1])
        /\ IsTunnel(ipToDomains[ip][2])
        /\ outcome.kind = "recordMapping"
        /\ HasEvent(emitted, "conflict-detected")
        /\ \E other \in DOMAIN ipToDomains : other # ip

\* --------------------------------------------------------- domain matcher
\* Patterns and names are strings, modelled as sequences of characters.
Upper == {"A", "E", "S", "T", "X"}
LowerAlnum == {"a", "b", "e", "s", "t", "x", "y"}
toLowerChar(c) == IF c = "A" THEN "a" ELSE IF c = "T" THEN "t"
                  ELSE IF c = "E" THEN "e" ELSE IF c = "S" THEN "s"
                  ELSE IF c = "X" THEN "x" ELSE c
\* String.prototype.toLowerCase
Lower(s) == [k \in 1..Len(s) |-> toLowerChar(s[k])]
\* String.prototype.trim
RECURSIVE trimStart(_)
trimStart(s) == IF s # << >> /\ Head(s) = " " THEN trimStart(Tail(s)) ELSE s
RECURSIVE trimEnd(_)
trimEnd(s) == IF s # << >> /\ s[Len(s)] = " " THEN trimEnd(SubSeq(s, 1, Len(s) - 1))
              ELSE s
trim(s) == trimEnd(trimStart(s))
\* String.prototype.startsWith('*.')
startsWithWildcard(s) == Len(s) >= 2 /\ s[1] = "*" /\ s[2] = "."
\* String.prototype.slice(n)
slice(s, n) == SubSeq(s, n + 1, Len(s))
\* String.prototype.split('.'): the labels, empty ones included
RECURSIVE split(_)
split(s) ==
    IF "." \notin SeqToSet(s) THEN <<s>>
    ELSE LET k == CHOOSE i \in 1..Len(s) : s[i] = "." /\ \A j \in 1..(i - 1) : s[j] # "."
         IN <<SubSeq(s, 1, k - 1)>> \o split(slice(s, k))
\* Array.prototype.join('.')
RECURSIVE join(_)
join(parts) ==
    IF parts = << >> THEN << >>
    ELSE IF Len(parts) = 1 THEN parts[1]
    ELSE parts[1] \o <<".">> \o join(Tail(parts))

normalizePattern(pattern) == trim(Lower(pattern))

\* /^[a-z0-9]([a-z0-9-]*[a-z0-9])?$/ on one label
LabelOk(label) ==
    /\ label # << >>
    /\ label[1] \in LowerAlnum
    /\ label[Len(label)] \in LowerAlnum
    /\ \A k \in 1..Len(label) : label[k] \in LowerAlnum \cup {"-"}
\* domainRegex.test(domainPart): labels separated by single dots
domainRegex(domainPart) ==
    \A k \in 1..Len(split(domainPart)) : LabelOk(split(domainPart)[k])
\* DomainMatcher.isValidPattern(pattern).valid
isValidPattern(pattern) ==
    LET normalized == trim(Lower(pattern))
        stars == {k \in 1..Len(normalized) : normalized[k] = "*"}
        domainPart == IF startsWithWildcard(normalized) THEN slice(normalized, 2)
                      ELSE normalized
    IN IF Len(trim(pattern)) = 0 THEN FALSE
       ELSE IF stars # {} /\ ~startsWithWildcard(normalized) THEN FALSE
       ELSE IF Cardinality(stars) > 1 THEN FALSE
       ELSE IF stars # {} /\ Len(normalized) <= 2 THEN FALSE
       ELSE domainRegex(domainPart)

\* Map.prototype.has / get / set / delete on the rules, kept in insertion order
rulesHas(rs, key) == \E k \in 1..Len(rs) : rs[k].pattern = key
rulesGet(rs, key) == rs[CHOOSE k \in 1..Len(rs) : rs[k].pattern = key]
rulesSet(rs, key, rule) ==
    IF rulesHas(rs, key)
    THEN [k \in 1..Len(rs) |-> IF rs[k].pattern = key THEN rule ELSE rs[k]]
    ELSE Append(rs, rule)
rulesDelete(rs, key) == LET Other(r) == r.pattern # key IN SelectSeq(rs, Other)

\* Variant: an existing key keeps its rule.
addRuleKeepsFirst(rs, pattern, tunnel) ==
    LET normalized == normalizePattern(pattern)
    IN IF rulesHas(rs, normalized) THEN rs
       ELSE rulesSet(rs, normalized, [pattern |-> normalized, tunnel |-> tunnel])
addRule(rs, pattern, tunnel) ==
    LET normalized == normalizePattern(pattern)
    IN rulesSet(rs, normalized, [pattern |-> normalized, tunnel |-> tunnel])
removeRule(rs, pattern) == rulesDelete(rs, normalizePattern(pattern))
getRules(rs) == rs
clearRules == << >>
RECURSIVE AddRules(_, _)
AddRules(rs, list) ==
    IF list = << >> THEN rs
    ELSE AddRules(addRule(rs, Head(list).pattern, Head(list).tunnel), Tail(list))
loadRules(list) == AddRules(clearRules, list)

Matched(rule) == [matched |-> TRUE, tunnel |-> rule.tunnel, matchedRule |-> rule.pattern]
NoMatch == [matched |-> FALSE, tunnel |-> FALSE]
wildcardPattern(parts, i) == <<"*", ".">> \o join(slice(parts, i))
\* Variant: the wildcard loop runs from the shortest suffix to the longest.
RECURSIVE WildcardLoopShortestFirst(_, _, _)
WildcardLoopShortestFirst(rs, parts, i) ==
    IF ~(i < Len(parts)) THEN NoMatch
    ELSE IF rulesHas(rs, wildcardPattern(parts, Len(parts) - i))
    THEN Matched(rulesGet(rs, wildcardPattern(parts, Len(parts) - i)))
    ELSE WildcardLoopShortestFirst(rs, parts, i + 1)
\* Variant: the wildcard loop starts at the whole name.
RECURSIVE WildcardLoopFromZero(_, _, _)
WildcardLoopFromZero(rs, parts, i) ==
    IF ~(i - 1 < Len(parts)) THEN NoMatch
    ELSE IF rulesHas(rs, wildcardPattern(parts, i - 1))
    THEN Matched(rulesGet(rs, wildcardPattern(parts, i - 1)))
    ELSE WildcardLoopFromZero(rs, parts, i + 1)
\* for (let i = i0; i < parts.length; i++): first wildcard key that is there
RECURSIVE WildcardLoop(_, _, _)
WildcardLoop(rs, parts, i) ==
    IF ~(i < Len(parts)) THEN NoMatch
    ELSE IF rulesHas(rs, wildcardPattern(parts, i))
    THEN Matched(rulesGet(rs, wildcardPattern(parts, i)))
    ELSE WildcardLoop(rs, parts, i + 1)
match(rs, domain) ==
    LET normalizedDomain == Lower(domain)
    IN IF rulesHas(rs, normalizedDomain) THEN Matched(rulesGet(rs, normalizedDomain))
       ELSE WildcardLoop(rs, split(normalizedDomain), 1)

\* Patterns handed to the matcher: literals, one needing normalization,
\* wildcards, and one that isValidPattern refuses.
RawPatterns ==
    { <<"a", ".", "t">>,
      <<"A", ".", "T", " ">>,
      <<"x", ".", "a", ".", "t">>,
      <<"*", ".", "a", ".", "t">>,
      <<"*", ".", "t">>,
      <<"*", "t">> }
RawRules == [pattern : RawPatterns, tunnel : BOOLEAN]
\* Rule lists handed to loadRules
MaxLoad == 2
RuleLists == UNION {[1..n -> RawRules] : n \in 0..MaxLoad}
\* Rules the matcher may hold in one run
MaxRules == 3
\* Names looked up
QueryNames ==
    { <<"t">>,
      <<"a", ".", "t">>,
      <<"x", ".", "a", ".", "t">>,
      <<"X", ".", "A", ".", "T">>,
      <<"y", ".", "x", ".", "a", ".", "t">> }

coreVars == <<peer, now, rmVars, cdVars, ops, emitted, outcome, calls, records,
              userAllowedIps, started, unmatched, addCalls, trackedAtConflict,
              dnsVars, sniVars, sysVars, appVars>>
MatcherAddRule(pattern, tunnel) ==
    /\ Len(addRule(rules, pattern, tunnel)) <= MaxRules
    /\ rules' = addRule(rules, pattern, tunnel)
    /\ loaded' = NotLoaded
    /\ UNCHANGED <<lastMatch, coreVars>>
MatcherRemoveRule(pattern) ==
    /\ rules' = removeRule(rules, pattern)
    /\ loaded' = NotLoaded
    /\ UNCHANGED <<lastMatch, coreVars>>
MatcherLoadRules(list) ==
    /\ rules' = loadRules(list)
    /\ loaded' = [done |-> TRUE, list |-> list]
    /\ UNCHANGED <<lastMatch, coreVars>>
MatcherClearRules ==
    /\ rules' = clearRules
    /\ loaded' = NotLoaded
    /\ UNCHANGED <<lastMatch, coreVars>>
MatcherMatch(domain) ==
    /\ lastMatch' = [domain |-> domain, result |-> match(rules, domain)]
    /\ UNCHANGED <<rules, loaded, coreVars>>
AddRule == \E pattern \in RawPatterns, tunnel \in BOOLEAN : MatcherAddRule(pattern, tunnel)
RemoveRule == \E pattern \in RawPatterns : MatcherRemoveRule(pattern)
LoadRules == \E list \in RuleLists : MatcherLoadRules(list)
ClearRules == MatcherClearRules
Match == \E domain \in QueryNames : MatcherMatch(domain)
NextMatcher == AddRule \/ RemoveRule \/ LoadRules \/ ClearRules \/ Match
SpecMatcher == Init /\ [][NextMatcher]_vars

\* name is a strict subdomain of suffix: name = L.suffix for a non-empty L
IsStrictSubdomain(name, suffix) ==
    /\ Len(name) > Len(suffix) + 1
    /\ SubSeq(name, Len(name) - Len(suffix) + 1, Len(name)) = suffix
    /\ name[Len(name) - Len(suffix)] = "."
\* the wildcard rules of rs whose suffix name is a strict subdomain of
MatchingWildcards(rs, name) ==
    {k \in 1..Len(rs) : /\ startsWithWildcard(rs[k].pattern)
                        /\ IsStrictSubdomain(name, slice(rs[k].pattern, 2))}
LongestWildcard(rs, name) ==
    rs[CHOOSE k \in MatchingWildcards(rs, name) :
           \A l \in MatchingWildcards(rs, name) : Len(rs[l].pattern) <= Len(rs[k].pattern)]
\* what match is to return for a lowercased name
Expected(rs, name) ==
    IF rulesHas(rs, name) THEN Matched(rulesGet(rs, name))
    ELSE IF MatchingWildcards(rs, name) # {} THEN Matched(LongestWildcard(rs, name))
    ELSE NoMatch
\* lastMatch is what match returns on the rules as they are now
MatchIsCurrent ==
    /\ lastMatch # NoMatchCall
    /\ lastMatch.result = match(rules, lastMatch.domain)

\* C16: on every rule set and every name, match returns the exact literal
\* rule if there is one, otherwise the wildcard rule with the longest suffix
\* the name is a strict subdomain of, otherwise matched=false, tunnel=false;
\* the tunnel flags play no part.
C16_ExactThenLongestSuffix ==
    \A domain \in QueryNames : match(rules, domain) = Expected(rules, Lower(domain))
\* a name matched by the longer of two wildcard rules with different flags
C16_Witness ==
    /\ MatchIsCurrent
    /\ Cardinality(MatchingWildcards(rules, Lower(lastMatch.domain))) = 2
    /\ \E k, l \in MatchingWildcards(rules, Lower(lastMatch.domain)) :
           rules[k].tunnel # rules[l].tunnel
    /\ ~rulesHas(rules, Lower(lastMatch.domain))
    /\ lastMatch.result.matched
    /\ lastMatch.result.matchedRule = <<"*", ".", "a", ".", "t">>

\* C17: a wildcard rule *.S is never reported for S itself; when *.S is the
\* only rule, match(S) is matched=false, tunnel=false and match(L.S) reports
\* the rule for every name L.S with a non-empty prefix L.
C17_WildcardNotBase ==
    /\ \A k \in 1..Len(rules) :
           startsWithWildcard(rules[k].pattern) =>
               LET base == match(rules, slice(rules[k].pattern, 2))
               IN base.matched => base.matchedRule # rules[k].pattern
    /\ (Len(rules) = 1 /\ startsWithWildcard(rules[1].pattern)) =>
           /\ match(rules, slice(rules[1].pattern, 2)) = NoMatch
           /\ \A domain \in QueryNames :
                  IsStrictSubdomain(Lower(domain), slice(rules[1].pattern, 2)) =>
                      match(rules, domain) = Matched(rules[1])
\* the base of the only rule, a wildcard, looked up and not matched
C17_Witness ==
    /\ MatchIsCurrent
    /\ Len(rules) = 1
    /\ startsWithWildcard(rules[1].pattern)
    /\ lastMatch.domain = slice(rules[1].pattern, 2)
    /\ lastMatch.result = NoMatch

\* C18: every stored rule pattern satisfies isValidPattern, after any
\* sequence of addRule, removeRule, loadRules and clearRules.
C18_StoredPatternsValid ==
    \A k \in 1..Len(rules) : isValidPattern(rules[k].pattern)

\* the entries of a list with their patterns lowercased and trimmed
Normalized(list) ==
    [k \in 1..Len(list) |->
        [pattern |-> normalizePattern(list[k].pattern), tunnel |-> list[k].tunnel]]
\* the entries of list that are the first with their normalized pattern
FirstEntries(list) ==
    {k \in 1..Len(list) :
        \A j \in 1..(k - 1) : Normalized(list)[j].pattern # Normalized(list)[k].pattern}
\* the i-th of them, in list order
NthFirst(list, i) ==
    CHOOSE k \in FirstEntries(list) : Cardinality({j \in FirstEntries(list) : j <= k}) = i
\* the last entry of list with the normalized pattern p
LastEntry(list, p) ==
    CHOOSE k \in 1..Len(list) :
        /\ Normalized(list)[k].pattern = p
        /\ \A j \in (k + 1)..Len(list) : Normalized(list)[j].pattern # p

\* C19, as stated: after loadRules(list), getRules() holds exactly the
\* entries of list with their patterns normalized, each with its own flag.
C19_RoundTripAsStated ==
    loaded.done => SeqToSet(getRules(rules)) = SeqToSet(Normalized(loaded.list))
\* C19, amended: after loadRules(list), getRules() holds one rule for each
\* distinct normalized pattern of list, in the order of their first entries,
\* each with the flag of the last entry that normalizes to it; for a list
\* without two such entries that is the normalized list itself.
C19_RoundTripLastWins ==
    loaded.done =>
        /\ Len(getRules(rules)) = Cardinality(FirstEntries(loaded.list))
        /\ \A i \in 1..Len(getRules(rules)) :
               LET p == Normalized(loaded.list)[NthFirst(loaded.list, i)].pattern
               IN getRules(rules)[i] =
                      [pattern |-> p,
                       tunnel |-> loaded.list[LastEntry(loaded.list, p)].tunnel]
        /\ Cardinality(FirstEntries(loaded.list)) = Len(loaded.list) =>
               getRules(rules) = Normalized(loaded.list)
\* a loaded list of two entries that normalize to one pattern, flags differing
C19_Witness ==
    /\ loaded.done
    /\ Len(loaded.list) = 2
    /\ loaded.list[1].pattern # loaded.list[2].pattern
    /\ loaded.list[1].tunnel # loaded.list[2].tunnel
    /\ Len(rules) = 1

\* -------------------------------------------------------------- DNS proxy
\* the characters of a name the proxy is asked for
Chars(domain) ==
    IF domain = "A.TEST" THEN <<"A", ".", "T", "E", "S", "T">>
    ELSE IF domain = "a.test" THEN <<"a", ".", "t", "e", "s", "t">>
    ELSE <<"b", ".", "t", "e", "s", "t">>
\* this.emit(type, ...) of the DNS proxy for query q
DnsEvent(type, q) == [type |-> type, emitter |-> "dnsProxy", query |-> q]
DnsEvents(types, q) == [k \in 1..Len(types) |-> DnsEvent(types[k], q)]
\* the next query id a message arrives with
FreshQuery(q) == queries[q] = NoQuery /\ \A p \in QueryIds : p < q => queries[p] # NoQuery
\* the next socket dgram.createSocket returns
FreshSocket(s) == sockets[s] = "none" /\ \A r \in SocketIds : r < s => sockets[r] # "none"
\* a socket of the proxy is bound to the listen port: its 'message' handler runs
Listening == \E s \in SocketIds : sockets[s] = "bound"
DnsFrame == UNCHANGED <<peer, now, originalAllowedIps, cleanupTimer, liveTimers,
                        sniVars, sysVars, appVars>>
DetectorUnchanged == UNCHANGED cdVars
RouteManagerIdle == UNCHANGED <<injectedRoutes, domainToIps, ops, calls>>
DnsQuiet == DnsFrame /\ DetectorUnchanged /\ RouteManagerIdle /\ HistoryUpdate(<< >>)

\* if (this.isRunning) throw new Error('DNS proxy is already running')
startGuard == ~isRunning
\* start() up to server.bind(listenPort): a new socket, bind under way
DnsStart(s) ==
    /\ startGuard
    /\ FreshSocket(s)
    /\ server' = s
    /\ sockets' = [sockets EXCEPT ![s] = "binding"]
    /\ emitted' = << >>
    /\ Pending
    /\ UNCHANGED <<isRunning, queries, records, matcherVars>>
    /\ DnsQuiet
\* start() while running: throws, no socket created
DnsStartRejected ==
    /\ ~startGuard
    /\ emitted' = << >>
    /\ Done("dnsProxy.start", "error")
    /\ UNCHANGED <<server, sockets, isRunning, queries, records, matcherVars>>
    /\ DnsQuiet
\* the 'listening' listener of socket s; one socket at most holds the port
DnsListening(s) ==
    /\ sockets[s] = "binding"
    /\ ~Listening
    /\ sockets' = [sockets EXCEPT ![s] = "bound"]
    /\ isRunning' = TRUE
    /\ emitted' = <<[type |-> "started", emitter |-> "dnsProxy"]>>
    /\ Done("dnsProxy.start", "ok")
    /\ UNCHANGED <<server, queries, records, matcherVars>>
    /\ DnsQuiet
\* the 'error' listener of socket s when its bind fails
DnsBindError(s) ==
    /\ sockets[s] = "binding"
    /\ sockets' = [sockets EXCEPT ![s] = "failed"]
    /\ emitted' = <<[type |-> "error", emitter |-> "dnsProxy"]>>
    /\ IF isRunning THEN Pending ELSE Done("dnsProxy.start", "error")
    /\ UNCHANGED <<server, isRunning, queries, records, matcherVars>>
    /\ DnsQuiet
\* stop() up to this.server.close(callback): the socket is closed at once,
\* the callback is still to run
DnsStop ==
    /\ isRunning /\ server # NoSocket
    /\ sockets[server] # "closing"
    /\ sockets' = [sockets EXCEPT ![server] = "closing"]
    /\ emitted' = << >>
    /\ Pending
    /\ UNCHANGED <<server, isRunning, queries, records, matcherVars>>
    /\ DnsQuiet
\* stop() again before the callback ran: close throws on the closed socket
DnsStopAgain ==
    /\ isRunning /\ server # NoSocket
    /\ sockets[server] = "closing"
    /\ emitted' = << >>
    /\ Done("dnsProxy.stop", "error")
    /\ UNCHANGED <<server, sockets, isRunning, queries, records, matcherVars>>
    /\ DnsQuiet
\* the callback of close: stop() completes
DnsClosed(s) ==
    /\ sockets[s] = "closing"
    /\ sockets' = [sockets EXCEPT ![s] = "closed"]
    /\ isRunning' = FALSE
    /\ server' = NoSocket
    /\ emitted' = <<[type |-> "stopped", emitter |-> "dnsProxy"]>>
    /\ Done("dnsProxy.stop", "ok")
    /\ UNCHANGED <<queries, records, matcherVars>>
    /\ DnsQuiet
\* stop(): if (!this.isRunning || !this.server) return
DnsStopIgnored ==
    /\ ~(isRunning /\ server # NoSocket)
    /\ emitted' = << >>
    /\ Done("dnsProxy.stop", "ignored")
    /\ UNCHANGED <<server, sockets, isRunning, queries, records, matcherVars>>
    /\ DnsQuiet
\* handleQuery on a message that dnsPacket.decode refuses: emit('error'), return
DnsUndecodable ==
    /\ Listening
    /\ emitted' = <<[type |-> "error", emitter |-> "dnsProxy"]>>
    /\ Done("handleQuery", "undecodable")
    /\ UNCHANGED <<server, sockets, isRunning, queries, records, matcherVars>>
    /\ DnsQuiet
\* handleQuery up to `await this.forwardQuery(msg, upstream)`
DnsMessage(q, domain) ==
    LET shouldTunnel == match(rules, Chars(domain)).tunnel
    IN /\ Listening
       /\ FreshQuery(q)
       /\ queries' = [queries EXCEPT ![q] =
                         [NoQuery EXCEPT !.pc = "forwarding", !.domain = domain,
                                         !.tunnel = shouldTunnel,
                                         !.events = <<"query">>,
                                         !.upstream = IF shouldTunnel THEN "tunnelUpstream"
                                                      ELSE "directUpstream"]]
       /\ emitted' = <<DnsEvent("query", q)>>
       /\ Pending
       /\ UNCHANGED <<server, sockets, isRunning, records, matcherVars>>
       /\ DnsQuiet
\* the buffer forwardQuery resolved with for query q, as received
Verbatim(q) == [id |-> q, bytes |-> "upstream"]
\* the SERVFAIL response sendErrorResponse encodes for query q
Servfail(q) ==
    [id |-> q, type |-> "response", flags |-> "SERVFAIL",
     questions |-> queries[q].domain, answers |-> << >>]
\* this.server.send on a socket that close() was called on throws
SendThrows == server # NoSocket /\ sockets[server] = "closing"
\* Variant: nothing is sent.
sendErrorResponseSilent(q) == queries[q].sent
\* sendErrorResponse: this.server?.send(response, ...)
sendErrorResponse(q) ==
    IF server # NoSocket /\ ~SendThrows
    THEN Append(queries[q].sent, Servfail(q))
    ELSE queries[q].sent
\* events of the catch block: emit('error'), and once more from the .catch of
\* the 'message' listener when sendErrorResponse throws
CatchEvents == IF SendThrows THEN <<"error", "error">> ELSE <<"error">>
\* the catch block of handleQuery: emit('error'), sendErrorResponse
Caught(q, replied) ==
    /\ queries[q].pc = "forwarding"
    /\ queries' = [queries EXCEPT ![q].pc = "done", ![q].events = @ \o CatchEvents,
                                  ![q].replied = replied,
                                  ![q].sent = sendErrorResponse(q)]
    /\ emitted' = DnsEvents(CatchEvents, q)
    /\ Done("handleQuery", "error")
    /\ UNCHANGED <<server, sockets, isRunning, records, matcherVars>>
    /\ DnsQuiet
\* forwardQuery rejects: no reply within 5 s, or the upstream socket errors
UpstreamFail(q) == Caught(q, FALSE)
\* forwardQuery resolves with a reply that dnsPacket.decode refuses
UpstreamGarbled(q) == Caught(q, TRUE)
\* the 'route-injection' listener: injectRoutes(event.domain, event.ips, 300)
\* up to its await, run inside emit, so on the detector as recordMappings
\* has just left it; tables is the route manager's tables before the call
RouteInjectionListener(tables, domain, ips, before) ==
    LET st == InjectLoop(tables, ips, toLowerCase(domain), DefaultRouteTtl)'
    IN /\ injectedRoutes' = st.injectedRoutes
       /\ domainToIps' = st.domainToIps
       /\ emitted' = before \o st.events
       /\ IF Len(st.ipsToInject) > 0
          THEN /\ HasFree
               /\ Launch(NewOp("injectRoutes", "add", toLowerCase(domain), st.ipsToInject,
                               DefaultRouteTtl, Observable))
          ELSE UNCHANGED ops
       /\ calls' = calls + 1
       /\ HistoryUpdate(st.ipsToInject)
\* Variant: the decision is taken again when the reply arrives.
shouldTunnelRematched(query) == match(rules, Chars(query.domain)).tunnel
\* const shouldTunnel, as handleQuery holds it across the await
shouldTunnel(query) == query.tunnel
\* handleQuery after forwardQuery resolved with a reply carrying ips, whether
\* the proxy still runs or not: response, recordMappings and route-injection
\* when there are ips, then server.send, which throws into the catch block
\* when the server is gone
UpstreamReply(q, ips, window) ==
    LET query == queries[q]
        tunnel == shouldTunnel(query)
        routed == Len(ips) > 0
        cd == IF routed
              THEN recordMappings(CdState(window), query.domain, ips, tunnel)
              ELSE CdState(window)
        thrown == server = NoSocket \/ SendThrows
        types == <<"response">> \o (IF routed THEN <<"route-injection">> ELSE << >>)
        caught == IF thrown THEN CatchEvents ELSE << >>
        before == <<DnsEvent("response", q)>> \o cd.events
                  \o (IF routed
                      THEN <<[type |-> "route-injection", emitter |-> "dnsProxy",
                              query |-> q, tunnel |-> tunnel]>>
                      ELSE << >>)
    IN /\ query.pc = "forwarding"
       /\ ipToDomains' = cd.ipToDomains
       /\ cdDomainToIps' = cd.domainToIps
       /\ conflicts' = cd.conflicts
       /\ DnsFrame
       /\ UNCHANGED <<server, sockets, isRunning, matcherVars>>
       /\ records' = records + (IF routed THEN 1 ELSE 0)
       /\ queries' = [queries EXCEPT
              ![q].pc = IF thrown THEN "done" ELSE "sending",
              ![q].events = @ \o types \o caught,
              ![q].replied = TRUE,
              ![q].mapping = IF routed THEN <<tunnel>> ELSE @,
              ![q].injection = IF routed THEN <<tunnel>> ELSE @,
              ![q].sent = IF thrown THEN sendErrorResponse(q) ELSE Append(@, Verbatim(q))]
       /\ IF thrown THEN Done("handleQuery", "error") ELSE Pending
       /\ IF routed /\ tunnel
          THEN \E tables \in {[injectedRoutes |-> injectedRoutes,
                               domainToIps |-> domainToIps,
                               ipsToInject |-> << >>, events |-> << >>]} :
                   RouteInjectionListener(tables, query.domain, ips,
                                          before \o DnsEvents(caught, q))
          ELSE /\ RouteManagerIdle
               /\ emitted' = before \o DnsEvents(caught, q)
               /\ HistoryUpdate(<< >>)
\* the callback of server.send: if (err) this.emit('error', err)
SendDone(q, err) ==
    /\ queries[q].pc = "sending"
    /\ queries' = [queries EXCEPT ![q].pc = "done",
                                  ![q].events = IF err THEN Append(@, "error") ELSE @]
    /\ emitted' = IF err THEN <<DnsEvent("error", q)>> ELSE << >>
    /\ Done("handleQuery", IF err THEN "error" ELSE "ok")
    /\ UNCHANGED <<server, sockets, isRunning, records, matcherVars>>
    /\ DnsQuiet
\* ipcMain.handle('domains:add'): validate, addRule, persist, sendStatusUpdate
DomainsAdd(pattern, tunnel, window) ==
    LET cd == IF window THEN getConflicts(CdState(window)) ELSE CdState(window)
    IN IF isValidPattern(pattern)
       THEN /\ rules' = addRule(rules, pattern, tunnel)
            /\ loaded' = NotLoaded
            /\ ipToDomains' = cd.ipToDomains
            /\ cdDomainToIps' = cd.domainToIps
            /\ conflicts' = cd.conflicts
            /\ emitted' = cd.events
            /\ Done("domains:add", "ok")
            /\ UNCHANGED <<lastMatch, dnsVars, records>>
            /\ DnsFrame /\ RouteManagerIdle /\ HistoryUpdate(<< >>)
       ELSE /\ emitted' = << >>
            /\ Done("domains:add", "error")
            /\ UNCHANGED <<matcherVars, dnsVars, records>>
            /\ DnsQuiet

\* answers of the upstream for a name: none, its A records, or the last of them
Answers(domain) ==
    {<< >>, Resolve(domain), <<Resolve(domain)[Len(Resolve(domain))]>>}
\* patterns the user sets rules for while the proxy runs, one of them refused
DnsPatterns == {Chars("a.test"), <<"*", "t">>}
DnsStartCall == \E s \in SocketIds : DnsStart(s)
DnsSocketListening == \E s \in SocketIds : DnsListening(s)
DnsSocketError == \E s \in SocketIds : DnsBindError(s)
DnsSocketClosed == \E s \in SocketIds : DnsClosed(s)
DnsQuery == \E q \in QueryIds, domain \in InputDomains : DnsMessage(q, domain)
DnsUpstreamFail == \E q \in QueryIds : UpstreamFail(q)
DnsUpstreamGarbled == \E q \in QueryIds : UpstreamGarbled(q)
DnsUpstreamReply ==
    \E q \in QueryIds, window \in BOOLEAN :
        \E ips \in Answers(queries[q].domain) : UpstreamReply(q, ips, window)
DnsSendDone == \E q \in QueryIds, err \in BOOLEAN : SendDone(q, err)
DnsDomainsAdd == \E pattern \in DnsPatterns, tunnel, window \in BOOLEAN :
                     DomainsAdd(pattern, tunnel, window)
\* The proxy is running on its first socket, the route manager started.
InitDnsRunning ==
    /\ RouteManagerStarted
    /\ server = 1
    /\ sockets = [s \in SocketIds |-> IF s = 1 THEN "bound" ELSE "none"]
    /\ isRunning = TRUE
    /\ queries = [q \in QueryIds |-> NoQuery]
    /\ SniConstructed
    /\ SystemDnsConstructed
\* The running DNS proxy beside the started route manager: rules added,
\* queries, upstream replies and failures, replies sent or not, and the VPN
\* commands of the injections the replies cause.
NextDns ==
    \/ DnsQuery
    \/ DnsUpstreamFail
    \/ DnsUpstreamReply
    \/ DnsSendDone
    \/ DnsDomainsAdd
    \/ VpnFetchFail
    \/ VpnFetchReturn
    \/ VpnSetFail
    \/ VpnSetReturn
SpecDns == InitDnsRunning /\ [][NextDns]_vars
\* start() and stop() of the DNS proxy in any interleaving with the socket's
\* callbacks, the queries and their upstream replies; no rule is set, so
\* every query is direct and the route manager stays idle.
NextDnsLifecycle ==
    \/ DnsStartCall
    \/ DnsStartRejected
    \/ DnsSocketListening
    \/ DnsSocketError
    \/ DnsStop
    \/ DnsStopAgain
    \/ DnsSocketClosed
    \/ DnsStopIgnored
    \/ DnsUndecodable
    \/ DnsQuery
    \/ DnsUpstreamFail
    \/ DnsUpstreamGarbled
    \/ DnsUpstreamReply
    \/ DnsSendDone
SpecDnsLifecycle == InitStarted /\ [][NextDnsLifecycle]_vars

\* the events of a query so far are the beginning of query, response,
\* route-injection or of query, error
OrderedEvents(events) ==
    \/ \E n \in 0..3 : events = SubSeq(<<"query", "response", "route-injection">>, 1, n)
    \/ events = <<"query", "error">>

\* C20: the events of each client query are, in this order, query, then one
\* of response and error, then at most one route-injection after a response:
\* no error after a response, no route-injection after an error.
C20_QueryEventsOrdered == \A q \in QueryIds : OrderedEvents(queries[q].events)


\* query q ended in the catch block because forwardQuery rejected
FailedUpstream(q) ==
    /\ queries[q].pc = "done"
    /\ ~queries[q].replied
    /\ queries[q].events = <<"query", "error">>
C22_ReplyNeverReplaced ==
    \A q \in QueryIds :
        queries[q].replied =>
            \A k \in 1..Len(queries[q].sent) : queries[q].sent[k] = Verbatim(q)


\* the upstream a query with this decision is forwarded to
UpstreamOf(tunnel) == IF tunnel THEN "tunnelUpstream" ELSE "directUpstream"
\* the detector holds a mapping of ip under the name with this tunnel flag
MappedAs(ip, domain, tunnel) ==
    /\ ip \in DOMAIN ipToDomains
    /\ \E k \in 1..Len(ipToDomains[ip]) :
           /\ ipToDomains[ip][k].domain = toLowerCase(domain)
           /\ ipToDomains[ip][k].tunnel = tunnel
\* C23: a query is forwarded to one upstream, the tunnel upstream exactly if
\* the matcher said tunnel for its name when it was received; the mappings
\* recorded for its reply and its route-injection event carry that decision,
\* and routes are injected only for a tunnel decision, whatever the rules
\* have become by then.
C23_OneTunnelDecision ==
    /\ [](\A q \in QueryIds :
             /\ queries[q].pc # "none" => queries[q].upstream = UpstreamOf(queries[q].tunnel)
             /\ \A k \in 1..Len(queries[q].mapping) :
                    queries[q].mapping[k] = queries[q].tunnel
             /\ \A k \in 1..Len(queries[q].injection) :
                    queries[q].injection[k] = queries[q].tunnel)
    /\ [][\A q \in QueryIds :
             /\ \A domain \in InputDomains :
                    DnsMessage(q, domain) =>
                        /\ queries'[q].tunnel = match(rules, Chars(domain)).tunnel
                        /\ queries'[q].upstream =
                               UpstreamOf(match(rules, Chars(domain)).tunnel)
             /\ (queries[q].pc = "forwarding" /\ queries'[q].injection # << >>) =>
                    /\ \E k \in 1..Len(emitted') :
                           /\ emitted'[k].type = "route-injection"
                           /\ emitted'[k].tunnel = queries[q].tunnel
                    /\ \E ip \in RawIps :
                           MappedAs(ip, queries[q].domain, queries[q].tunnel)'
                    /\ ~queries[q].tunnel => UNCHANGED <<calls, ops, injectedRoutes>>]_vars
\* a reply was handled as tunnelled, as decided on receipt, after the rule
\* for its name had been turned to direct
C23_Witness ==
    \E q \in QueryIds :
        /\ queries[q].injection = <<TRUE>>
        /\ queries[q].upstream = "tunnelUpstream"
        /\ ~match(rules, Chars(queries[q].domain)).tunnel
        /\ calls > 0


\* sockets of the proxy that are being bound or are bound
LiveSockets == {s \in SocketIds : sockets[s] \in {"binding", "bound"}}
\* C24: whatever the order of start() and stop() calls, a start() that finds
\* the proxy starting or running creates no socket, so the proxy never has
\* two sockets it is binding or has bound.
C24_OneSocket == Cardinality(LiveSockets) <= 1


\* stop() has completed and the proxy was not started again
Stopped == ~isRunning /\ server = NoSocket
\* C25: once stop() has completed, a query that was awaiting its upstream
\* reply emits no response and no route-injection event and records no
\* mapping.
C25_PendingDropped ==
    [][\A q \in QueryIds :
          (Stopped /\ queries[q].pc = "forwarding") =>
              /\ \A k \in 1..Len(queries'[q].events) :
                     queries'[q].events[k] \notin {"response", "route-injection"}
              /\ queries'[q].mapping = << >>
              /\ queries'[q].injection = << >>]_vars


\* C26: the route of an A record of a tunnelled reply, once tracked by the
\* route manager and present in the peer's allowed-ips, stays in the
\* allowed-ips for as long as the route manager tracks it.
C26_InjectedRouteStays ==
    [][\A c \in Cidrs :
          (Tracked(c) /\ c \in peer /\ Tracked(c)') => c \in peer']_vars


\* -------------------------------------------------------------- SNI proxy
\* SOCKS5 constants
SOCKS_VERSION == 5
SOCKS_AUTH_NONE == 0
SOCKS_CMD_CONNECT == 1
SOCKS_ATYP_IPV4 == 1
SOCKS_ATYP_DOMAIN == 3
SOCKS_ATYP_IPV6 == 4
SOCKS_REPLY_SUCCESS == 0
SOCKS_REPLY_FAILURE == 1
\* clientSocket.write(Buffer.from([SOCKS_VERSION, SOCKS_AUTH_NONE]))
MethodReply == <<SOCKS_VERSION, SOCKS_AUTH_NONE>>
\* sendSocksReply: VER | REP | RSV | ATYP | BND.ADDR | BND.PORT
SocksReply(status) == <<SOCKS_VERSION, status, 0, SOCKS_ATYP_IPV4, 0, 0, 0, 0, 0, 0>>
\* versions, commands and address types a client may send
SocksVersions == {4, SOCKS_VERSION}
SocksCommands == {SOCKS_CMD_CONNECT, 2}
SocksAtyps == {SOCKS_ATYP_IPV4, 2, SOCKS_ATYP_DOMAIN, SOCKS_ATYP_IPV6}
SniEvent(type, c) == [type |-> type, emitter |-> "sniProxy", connection |-> c]
\* the next connection the listener accepts
FreshConn(c) ==
    connections[c] = NoConn /\ \A b \in ConnIds : b < c => connections[b] # NoConn
SniQuiet ==
    /\ UNCHANGED <<peer, now, originalAllowedIps, cleanupTimer, liveTimers>>
    /\ UNCHANGED <<dnsVars, records, matcherVars, sysVars, appVars>>
    /\ DetectorUnchanged /\ RouteManagerIdle /\ HistoryUpdate(<< >>)
\* socket.write on the client socket: nothing reaches a destroyed socket
Write(conn, bytes) ==
    IF conn.client = "open" THEN Append(conn.written, bytes) ELSE conn.written
\* clientSocket.destroy() and the 'close' listener that follows it
Destroy(c, conn, cause) ==
    /\ connections' = [connections EXCEPT
           ![c] = [conn EXCEPT !.pc = "closed", !.client = "destroyed", !.cause = cause]]
    /\ activeConnections' = activeConnections \ {c}
\* handleConnection up to the first readBytes
SniAccept(c) ==
    /\ sniServer = "listening"
    /\ FreshConn(c)
    /\ connections' = [connections EXCEPT ![c] = [NoConn EXCEPT !.pc = "greeting",
                                                                 !.client = "open"]]
    /\ activeConnections' = activeConnections \cup {c}
    /\ emitted' = << >>
    /\ Pending
    /\ UNCHANGED <<sniRunning, sniServer>>
    /\ SniQuiet
\* step 1: the greeting and the methods have been read
SniGreeting(c, version) ==
    LET conn == connections[c]
    IN /\ conn.pc = "greeting" /\ conn.client = "open"
       /\ IF version # SOCKS_VERSION
          THEN Destroy(c, conn, "version")
          ELSE /\ connections' = [connections EXCEPT
                      ![c] = [conn EXCEPT !.pc = "request",
                                          !.written = Write(conn, MethodReply)]]
               /\ UNCHANGED activeConnections
       /\ emitted' = << >>
       /\ Pending
       /\ UNCHANGED <<sniRunning, sniServer>>
       /\ SniQuiet
\* readBytes rejects (10 s without the bytes, or a socket error): catch block
SniReadFail(c) ==
    LET conn == connections[c]
    IN /\ conn.pc \in {"greeting", "request"}
       /\ Destroy(c, conn, "read")
       /\ emitted' = <<SniEvent("error", c)>>
       /\ Done("handleConnection", "error")
       /\ UNCHANGED <<sniRunning, sniServer>>
       /\ SniQuiet
\* step 2: the request has been read; the outbound dial begins
SniRequest(c, cmd, atyp) ==
    LET conn == connections[c]
        failed == [conn EXCEPT !.written = Write(conn, SocksReply(SOCKS_REPLY_FAILURE))]
    IN /\ conn.pc = "request" /\ conn.client = "open"
       /\ IF cmd # SOCKS_CMD_CONNECT
          THEN Destroy(c, failed, "command") /\ emitted' = << >>
          ELSE IF atyp \notin {SOCKS_ATYP_IPV4, SOCKS_ATYP_DOMAIN, SOCKS_ATYP_IPV6}
          THEN Destroy(c, failed, "atyp") /\ emitted' = << >>
          ELSE /\ connections' = [connections EXCEPT
                      ![c] = [conn EXCEPT !.pc = "dialing", !.outbound = "dialing"]]
               /\ emitted' = <<SniEvent("connection", c)>>
               /\ UNCHANGED activeConnections
       /\ Pending
       /\ UNCHANGED <<sniRunning, sniServer>>
       /\ SniQuiet
\* connectDirect / connectViaSocks resolves: success reply, pipes
SniDialOk(c) ==
    LET conn == connections[c]
    IN /\ conn.pc = "dialing"
       /\ connections' = [connections EXCEPT
              ![c] = [conn EXCEPT !.pc = "relaying", !.outbound = "open",
                                  !.written = Write(conn, SocksReply(SOCKS_REPLY_SUCCESS))]]
       /\ emitted' = << >>
       /\ Done("handleConnection", "ok")
       /\ UNCHANGED <<sniRunning, sniServer, activeConnections>>
       /\ SniQuiet
\* the dial fails or times out after 10 s: catch block
SniDialFail(c) ==
    LET conn == connections[c]
    IN /\ conn.pc = "dialing"
       /\ Destroy(c, [conn EXCEPT !.outbound = "closed"], "dial")
       /\ emitted' = <<SniEvent("error", c)>>
       /\ Done("handleConnection", "error")
       /\ UNCHANGED <<sniRunning, sniServer>>
       /\ SniQuiet
\* targetSocket.on('close'): clientSocket.destroy()
SniTargetClose(c) ==
    LET conn == connections[c]
    IN /\ conn.pc = "relaying" /\ conn.outbound = "open"
       /\ Destroy(c, [conn EXCEPT !.outbound = "closed"], "none")
       /\ emitted' = << >>
       /\ Pending
       /\ UNCHANGED <<sniRunning, sniServer>>
       /\ SniQuiet
\* stop() up to this.server.close(callback): the client sockets of the
\* active connections are destroyed, the listener stops accepting
SniStop ==
    /\ sniRunning /\ sniServer = "listening"
    /\ connections' = [c \in ConnIds |->
                          IF c \in activeConnections
                          THEN [connections[c] EXCEPT !.client = "destroyed"]
                          ELSE connections[c]]
    /\ activeConnections' = {}
    /\ sniServer' = "closing"
    /\ emitted' = << >>
    /\ Pending
    /\ UNCHANGED sniRunning
    /\ SniQuiet
\* the callback of close, once every accepted socket is closed: stop() completes
SniClosed ==
    /\ sniServer = "closing"
    /\ \A c \in ConnIds : connections[c].client # "open"
    /\ sniRunning' = FALSE
    /\ sniServer' = "null"
    /\ emitted' = <<[type |-> "stopped", emitter |-> "sniProxy"]>>
    /\ Done("sniProxy.stop", "ok")
    /\ UNCHANGED <<activeConnections, connections>>
    /\ SniQuiet
SniConnection == \E c \in ConnIds : SniAccept(c)
SniGreeted == \E c \in ConnIds, version \in SocksVersions : SniGreeting(c, version)
SniReadFailed == \E c \in ConnIds : SniReadFail(c)
SniRequested ==
    \E c \in ConnIds, cmd \in SocksCommands, atyp \in SocksAtyps : SniRequest(c, cmd, atyp)
SniDialled == \E c \in ConnIds : SniDialOk(c)
SniDialFailed == \E c \in ConnIds : SniDialFail(c)
SniTargetClosed == \E c \in ConnIds : SniTargetClose(c)
\* The SNI proxy is listening.
InitSni ==
    /\ RouteManagerStarted
    /\ DnsConstructed
    /\ sniRunning = TRUE
    /\ sniServer = "listening"
    /\ activeConnections = {}
    /\ connections = [c \in ConnIds |-> NoConn]
    /\ SystemDnsConstructed
\* The listening SNI proxy: connections accepted, their handshakes, dials and
\* ends in any interleaving, and one stop().
NextSni ==
    \/ SniConnection
    \/ SniGreeted
    \/ SniReadFailed
    \/ SniRequested
    \/ SniDialled
    \/ SniDialFailed
    \/ SniTargetClosed
    \/ SniStop
    \/ SniClosed
SpecSni == InitSni /\ [][NextSni]_vars

\* the proxy has accepted the greeting of connection c
GreetingAccepted(c) ==
    /\ Len(connections[c].written) > 0
    /\ connections[c].written[1] = MethodReply
\* C27: a connection that failed after its greeting was accepted (command
\* other than CONNECT, unknown address type, read failure or timeout, dial
\* failure or timeout) was sent the failure reply last, before it was closed.
C27_FailureReplied ==
    \A c \in ConnIds :
        (/\ sniServer = "listening"
         /\ GreetingAccepted(c)
         /\ connections[c].cause \in {"command", "atyp", "read", "dial"})
            => connections[c].written[Len(connections[c].written)]
                   = SocksReply(SOCKS_REPLY_FAILURE)

\* C28: once stop() has completed, the listener is closed, no connection is
\* in the active set, and no client socket and no outbound socket is open.
C28_NothingOpenAfterStop ==
    (~sniRunning /\ sniServer = "null") =>
        /\ activeConnections = {}
        /\ \A c \in ConnIds :
               /\ connections[c].client # "open"
               /\ connections[c].outbound # "open"


\* ------------------------------------------------------------ system DNS
\* configure() and restore() calls in one run.
MaxSysCalls == 4
\* the steps of configure() and of restore() whose OS commands may fail
ConfigureSteps == {"backup", "resolver", "redirect", "flush"}
RestoreSteps == {"redirect", "resolver", "flush"}
SysEvent(type) == [type |-> type, emitter |-> "systemDns"]
\* what `echo '<content>' | sudo tee <file>` leaves in the file: the content
\* and the newline echo adds; a file is the sequence of its lines
Echo(content) == content \o <<"">>
\* the `nameserver` lines of a resolv.conf
Nameservers(content) ==
    IF content = Missing THEN << >>
    ELSE LET IsNameserver(line) == line # "" IN SelectSeq(content, IsNameserver)
\* if (this.backup?.resolvConf): neither undefined nor the empty string
Truthy(content) == content # Missing /\ content # << >>
\* the result of a private method: the OS as it leaves it, what it emitted,
\* whether it threw, and which of its steps failed
Ran(o, events, thrown, failed) ==
    [os |-> o, events |-> events, thrown |-> thrown, failed |-> failed]
\* backupCurrentSettings, with getMacOSNetworkServices for the one service
backupCurrentSettings(fails) ==
    LET failed == "backup" \in fails
    IN IF platform = "darwin"
       THEN [platform |-> platform,
             services |-> IF failed THEN << >>
                          ELSE <<[name |-> "Wi-Fi", dns |-> os.dns]>>,
             resolvConf |-> Missing]
       ELSE IF platform = "linux"
       THEN [platform |-> platform, services |-> << >>,
             resolvConf |-> IF failed THEN Missing ELSE os.resolvConf]
       ELSE [platform |-> platform, services |-> << >>, resolvConf |-> Missing]
\* events of backupCurrentSettings: getMacOSNetworkServices emits error
BackupEvents(fails) ==
    IF platform = "darwin" /\ "backup" \in fails THEN <<SysEvent("error")>> ELSE << >>
\* the steps of backupCurrentSettings that failed
BackupFailed(fails) ==
    IF platform \in {"darwin", "linux"} THEN fails \cap {"backup"} ELSE {}
\* configureMacOS: setdnsservers per service, setupMacOSPortRedirect, flush
configureMacOS(o, b, fails) ==
    LET set == Len(b.services) > 0
        o1 == IF set /\ "resolver" \notin fails
              THEN [o EXCEPT !.dns = <<"127.0.0.1">>] ELSE o
        o2 == IF "redirect" \notin fails THEN [o1 EXCEPT !.anchor = TRUE] ELSE o1
        warnings == (IF set /\ "resolver" \in fails THEN <<SysEvent("warning")>> ELSE << >>)
                    \o (IF "redirect" \in fails THEN <<SysEvent("warning")>> ELSE << >>)
    IN Ran(o2, warnings, FALSE,
           (fails \cap {"redirect", "flush"})
               \cup (IF set THEN fails \cap {"resolver"} ELSE {}))
\* configureLinux: configureSystemdResolved or configureResolvConf, then
\* setupLinuxPortRedirect
configureLinux(o, fails) ==
    LET refused == "resolver" \in fails
        o1 == IF o.resolved
              THEN (IF refused THEN o ELSE [o EXCEPT !.dropIn = TRUE])
              ELSE IF refused \/ o.resolvConf = Missing THEN o
              ELSE [o EXCEPT !.resolvConf = Echo(<<"nameserver 127.0.0.1">>),
                             !.symlink = FALSE]
        thrown == ~o.resolved /\ (refused \/ o.resolvConf = Missing)
        o2 == IF thrown \/ "redirect" \in fails THEN o1
              ELSE [o1 EXCEPT !.udpRedirects = @ + 1, !.tcpRedirects = @ + 1]
        events == (IF refused /\ o.resolved THEN <<SysEvent("warning")>> ELSE << >>)
                  \o (IF thrown THEN <<SysEvent("error")>> ELSE << >>)
                  \o (IF ~thrown /\ "redirect" \in fails
                      THEN <<SysEvent("warning")>> ELSE << >>)
    IN Ran(o2, events, thrown,
           (IF refused \/ thrown THEN {"resolver"} ELSE {})
               \cup (IF thrown THEN {} ELSE fails \cap {"redirect"}))
\* restoreMacOS: removeMacOSPortRedirect, setdnsservers per service, flush
restoreMacOS(o, b, fails) ==
    LET set == Len(b.services) > 0
        o1 == IF "redirect" \notin fails THEN [o EXCEPT !.anchor = FALSE] ELSE o
        o2 == IF set /\ "resolver" \notin fails
              THEN [o1 EXCEPT !.dns = b.services[1].dns] ELSE o1
    IN Ran(o2, IF set /\ "resolver" \in fails THEN <<SysEvent("warning")>> ELSE << >>,
           FALSE,
           (fails \cap {"redirect", "flush"})
               \cup (IF set THEN fails \cap {"resolver"} ELSE {}))
\* restoreLinux: removeLinuxPortRedirect (the tcp rule is not tried when
\* deleting the udp rule fails), the drop-in removed, resolv.conf written
\* back when the backup holds one
restoreLinux(o, b, fails) ==
    LET refused == "resolver" \in fails
        o1 == IF "redirect" \in fails \/ o.udpRedirects = 0 THEN o
              ELSE [o EXCEPT !.udpRedirects = @ - 1,
                             !.tcpRedirects = IF @ > 0 THEN @ - 1 ELSE @]
        o2 == IF refused THEN o1 ELSE [o1 EXCEPT !.dropIn = FALSE]
        o3 == IF Truthy(b.resolvConf) /\ ~refused
              THEN [o2 EXCEPT !.resolvConf = Echo(b.resolvConf)] ELSE o2
    IN Ran(o3, IF Truthy(b.resolvConf) /\ refused THEN <<SysEvent("error")>> ELSE << >>,
           FALSE, fails \cap {"redirect", "resolver"})
\* restore() with a backup: the platform's restore, isConfigured = false,
\* emit('restored')
restore(o, b, fails) ==
    LET r == IF platform = "darwin" THEN restoreMacOS(o, b, fails)
             ELSE IF platform = "linux" THEN restoreLinux(o, b, fails)
             ELSE Ran(o, << >>, FALSE, {})
    IN [r EXCEPT !.events = @ \o <<SysEvent("restored")>>]
\* a call and its outcome, for the history
Call(op, result, failed) == [op |-> op, result |-> result, failed |-> failed]
\* what a call of SystemDns leaves alone (its caller in main.ts aside)
SysFrame ==
    /\ UNCHANGED <<peer, now, originalAllowedIps, cleanupTimer, liveTimers>>
    /\ UNCHANGED <<dnsVars, records, matcherVars, sniVars, platform, found>>
    /\ DetectorUnchanged /\ RouteManagerIdle /\ HistoryUpdate(<< >>)
SysQuiet == SysFrame /\ UNCHANGED appVars
\* configure() while configured: returns
ConfigureAgain ==
    /\ Len(lifecycle) < MaxSysCalls
    /\ isConfigured
    /\ lifecycle' = Append(lifecycle, Call("configure", "ok", {}))
    /\ emitted' = << >>
    /\ Done("configure", "ok")
    /\ UNCHANGED <<os, backup, isConfigured>>
    /\ SysFrame
\* configure(): backup, the platform's configuration, and restore() when
\* that throws
Configure(fails, rfails) ==
    LET b == backupCurrentSettings(fails)
        c == IF platform = "darwin" THEN configureMacOS(os, b, fails)
             ELSE IF platform = "linux" THEN configureLinux(os, fails)
             ELSE Ran(os, << >>, TRUE, {"platform"})
        r == restore(c.os, b, rfails)
        failed == BackupFailed(fails) \cup c.failed
    IN /\ Len(lifecycle) < MaxSysCalls
       /\ ~isConfigured
       /\ backup' = b
       /\ IF c.thrown
          THEN /\ os' = r.os
               /\ isConfigured' = FALSE
               /\ emitted' = BackupEvents(fails) \o <<SysEvent("backup-created")>>
                             \o c.events \o r.events
               /\ lifecycle' = Append(lifecycle, Call("configure", "error", failed))
               /\ Done("configure", "error")
          ELSE /\ rfails = {}
               /\ os' = c.os
               /\ isConfigured' = TRUE
               /\ emitted' = BackupEvents(fails) \o <<SysEvent("backup-created")>>
                             \o c.events \o <<SysEvent("configured")>>
               /\ lifecycle' = Append(lifecycle, Call("configure", "ok", failed))
               /\ Done("configure", "ok")
       /\ SysFrame
\* restore() without a backup: returns
RestoreNothing ==
    /\ Len(lifecycle) < MaxSysCalls
    /\ backup = NoBackup
    /\ lifecycle' = Append(lifecycle, Call("restore", "ok", {}))
    /\ emitted' = << >>
    /\ Done("restore", "ok")
    /\ UNCHANGED <<os, backup, isConfigured>>
    /\ SysQuiet
\* restore() with a backup
Restore(fails) ==
    LET r == restore(os, backup, fails)
    IN /\ Len(lifecycle) < MaxSysCalls
       /\ backup # NoBackup
       /\ os' = r.os
       /\ emitted' = r.events
       /\ IF r.thrown
          THEN /\ UNCHANGED isConfigured
               /\ lifecycle' = Append(lifecycle, Call("restore", "error", r.failed))
               /\ Done("restore", "error")
          ELSE /\ isConfigured' = FALSE
               /\ lifecycle' = Append(lifecycle, Call("restore", "ok", r.failed))
               /\ Done("restore", "ok")
       /\ UNCHANGED backup
       /\ SysQuiet
ConfigureCall ==
    /\ \E fails \in SUBSET ConfigureSteps, rfails \in SUBSET RestoreSteps :
          Configure(fails, rfails)
    /\ UNCHANGED appVars
SystemDnsConfigureAgain == ConfigureAgain /\ UNCHANGED appVars
RestoreCall == \E fails \in SUBSET RestoreSteps : Restore(fails)
\* resolver configurations the program may find
FoundOn(p) ==
    IF p = "darwin"
    THEN {[NoOs EXCEPT !.dns = dns] : dns \in {<< >>, <<"1.1.1.1">>}}
    ELSE IF p = "linux"
    THEN {o \in {[NoOs EXCEPT !.resolved = resolved, !.resolvConf = content,
                              !.symlink = symlink] :
                    resolved, symlink \in BOOLEAN,
                    content \in {Missing, << >>, <<"nameserver 1.1.1.1">>}} :
             o.symlink => o.resolvConf # Missing}
    ELSE {NoOs}
\* The SystemDns singleton on each platform and resolver configuration.
InitSystemDns ==
    /\ RouteManagerStarted
    /\ DnsConstructed
    /\ SniConstructed
    /\ platform \in {"darwin", "linux", "win32"}
    /\ os \in FoundOn(platform)
    /\ found = os
    /\ backup = NoBackup
    /\ isConfigured = FALSE
    /\ lifecycle = << >>
    /\ MainLoaded
\* configure() and restore() called in any order, each OS step failing or not.
NextSystemDns ==
    \/ ConfigureCall
    \/ SystemDnsConfigureAgain
    \/ RestoreCall
    \/ RestoreNothing
SpecSystemDns == InitSystemDns /\ [][NextSystemDns]_vars


\* C29: a configure() call in which a step failed (backup, resolver,
\* redirect or cache flush) has failed with an error and left
\* isConfigured false.
C29_FailedStepFailsConfigure ==
    \A k \in 1..Len(lifecycle) :
        (lifecycle[k].op = "configure" /\ lifecycle[k].failed # {}) =>
            /\ lifecycle[k].result = "error"
            /\ k = Len(lifecycle) => ~isConfigured

\* what the claim compares: the resolver addresses and the port-53 redirects
ResolverConfig(o) ==
    [dns |-> o.dns, nameservers |-> Nameservers(o.resolvConf), dropIn |-> o.dropIn,
     anchor |-> o.anchor, udpRedirects |-> o.udpRedirects,
     tcpRedirects |-> o.tcpRedirects]
\* start; stop; start; stop, every call successful and no OS command failed
TwoCycles ==
    /\ Len(lifecycle) = 4
    /\ \A k \in 1..4 :
           /\ lifecycle[k].op = (IF k % 2 = 1 THEN "configure" ELSE "restore")
           /\ lifecycle[k].result = "ok"
           /\ lifecycle[k].failed = {}
\* C30: after start; stop; start; stop on a supported platform the resolver
\* addresses and the port-53 redirect rules are as found before the first start.
C30_LifecycleRestores ==
    (platform \in {"darwin", "linux"} /\ TwoCycles) =>
        ResolverConfig(os) = ResolverConfig(found)


\* ------------------------------------------------ start/stop and the timer
\* start(), stop() and the interval callbacks of the route manager, with
\* routes injected in between, every VPN command free to fail.
NextTimer ==
    \/ Start
    \/ Stop
    \/ ExpiryInject
    \/ TimerTick
    \/ VpnFetchFail
    \/ VpnFetchReturn
    \/ VpnSetFail
    \/ VpnSetReturn
SpecTimer == Init /\ [][NextTimer]_vars

\* no start() or stop() is between its call and its return
StartStopSettled == \A i \in OpIds : ops[i].kind \notin {"start", "stop"}

\* C33: once stop() has returned or thrown, and until start() is called
\* again, no cleanup tick fires, whatever sequence of start and stop calls
\* came before (start() twice without a stop() in between included).
C33_NoTickAfterStop ==
    [][(~cleanupTimer /\ StartStopSettled) => ~TimerTick]_vars

\* the set domainToIps holds for a domain (empty when it has no entry)
IpsOf(d2i, domain) == IF domain \in DOMAIN d2i THEN d2i[domain] ELSE {}

\* C37: first writer wins. injectRoutes(d2, ips, ttl) naming an x whose x/32
\* is tracked under another domain leaves that route (domain, ttl, expiresAt)
\* as it was, adds no x/32 to d2's ip set and names x/32 in no VPN call; and
\* a step that changes the ttl or expiresAt of a route that stays tracked is
\* an injectRoutes of the route's own domain.
C37_FirstWriterWins ==
    /\ [][\A domain \in InputDomains, ips \in IpLists, ttl \in TTLs :
            injectRoutes(domain, ips, ttl) =>
              \A x \in SeqToSet(ips) :
                 (/\ Tracked(IpWithMask(x))
                  /\ injectedRoutes[IpWithMask(x)].domain # toLowerCase(domain))
                    => /\ Tracked(IpWithMask(x))'
                       /\ injectedRoutes'[IpWithMask(x)] = injectedRoutes[IpWithMask(x)]
                       /\ IpWithMask(x) \in IpsOf(domainToIps', toLowerCase(domain))
                            => IpWithMask(x) \in IpsOf(domainToIps, toLowerCase(domain))
                       /\ \A i \in OpIds :
                            ops'[i] # ops[i] => ~includes(ops'[i].ips, IpWithMask(x))
                       /\ addCalls'[IpWithMask(x)] = addCalls[IpWithMask(x)]]_vars
    /\ [][\A c \in Cidrs :
            (/\ Tracked(c) /\ Tracked(c)'
             /\ injectedRoutes'[c].domain = injectedRoutes[c].domain
             /\ \/ injectedRoutes'[c].ttl # injectedRoutes[c].ttl
                \/ injectedRoutes'[c].expiresAt # injectedRoutes[c].expiresAt)
               => \E domain \in InputDomains, ips \in IpLists, ttl \in TTLs :
                     /\ toLowerCase(domain) = injectedRoutes[c].domain
                     /\ includes(ips, CHOOSE x \in RawIps : IpWithMask(x) = c)
                     /\ injectRoutes(domain, ips, ttl)]_vars

\* the second call was an injectRoutes that returned at once and named only
\* the one tracked ip (an untracked ip would have been tracked, none is in
\* the peer's original list); it came after the clock moved and the route's
\* expiry was not moved: the caller was not the route's domain
C37_Witness ==
    /\ calls = 2
    /\ AllIdle
    /\ originalAllowedIps = << >>
    /\ outcome = [kind |-> "injectRoutes", result |-> "ok"]
    /\ emitted = << >>
    /\ \E c \in Cidrs :
          /\ DOMAIN injectedRoutes = {c}
          /\ now > injectedRoutes[c].injectedAt
          /\ injectedRoutes[c].expiresAt =
               injectedRoutes[c].injectedAt + injectedRoutes[c].ttl * MsPerSecond
          /\ c \in peer

\* the ips the next tick will find expired
ExpiredIps == {ip \in DOMAIN injectedRoutes : IsExpired(ip)}

\* C36: when the VPN removal of a cleanup tick fails, an error event is
\* emitted, the tables are left as they were (every ip of the tick that was
\* tracked stays tracked, its entries unchanged and still expired), the timer
\* keeps running, and a tick names every tracked, expired ip in its removal
\* call, so the next tick tries the same ips again.
C36_FailedTickRetried ==
    /\ [][\A i \in OpIds :
            (ops[i].kind = "cleanupExpiredRoutes" /\ (FetchFail(i) \/ SetFail(i)))
               => /\ emitted' = <<ErrorEvent>>
                  /\ injectedRoutes' = injectedRoutes
                  /\ domainToIps' = domainToIps
                  /\ ExpiredIps' = ExpiredIps
                  /\ cleanupTimer' = cleanupTimer
                  /\ liveTimers' = liveTimers
                  /\ liveTimers' > 0]_vars
    /\ [][(TimerTick /\ ExpiredIps # {})
             => \E i \in OpIds :
                   /\ ops[i] = Idle
                   /\ ops'[i].kind = "cleanupExpiredRoutes"
                   /\ SeqToSet(ops'[i].ips) = ExpiredIps]_vars

\* the removal of a tick has just failed: the error was emitted, the promise
\* of the tick resolved, the expired route is still tracked and the timer runs
C36_Witness ==
    /\ outcome = [kind |-> "cleanupExpiredRoutes", result |-> "ok"]
    /\ emitted = <<ErrorEvent>>
    /\ liveTimers > 0
    /\ \E c \in Cidrs :
          /\ Tracked(c)
          /\ IsExpired(c)
          /\ c \in IpsOf(domainToIps, injectedRoutes[c].domain)

\* C34: no injected route outlives its table entry. Once no call is in
\* flight, every ip/32 in the peer's allowed-ips that the route manager put
\* there (it was not configured by the user and is not in
\* originalAllowedIps) is tracked, whatever the interleaving of injectRoutes
\* with removeRoutesForDomain, removeRoute, clearAllRoutes, stop and ticks.
C34_NoRouteOutlivesEntry ==
    AllIdle =>
       \A c \in Cidrs :
          (c \in peer /\ c \notin userAllowedIps /\ ~includes(originalAllowedIps, c))
             => Tracked(c)

\* C35: at any time hasConflict(ip) implies that ip has a tunnel mapping and
\* a direct mapping each younger than mappingTTL: no conflict is reported on
\* stale mappings, also when no record or cleanup has run since they went
\* stale.
C35_NoStaleConflict ==
    \A ip \in RawIps : hasConflict(ip) => ShouldConflict(ip)

\* ------------------------------------------------------------ main process
\* initializeModules' crash recovery, startProxy, and the death of the
\* process at any instant: what is in memory is lost, the operating system's
\* settings and the persisted store stay.
\* startProxy calls / crashes in one run
MaxStarts == 2
MaxCrashes == 1
\* what wireguard.getConfig() and isActive() tell startProxy
WgStates == {"unset", "down", "up"}
\* the resolver of the operating system names 127.0.0.1
PointsAtProxy(o) ==
    IF platform = "darwin" THEN includes(o.dns, "127.0.0.1")
    ELSE IF platform = "linux"
    THEN \/ o.resolved /\ o.dropIn
         \/ ~o.resolved /\ o.resolvConf # Missing
                        /\ includes(o.resolvConf, "nameserver 127.0.0.1")
    ELSE FALSE
\* checkForStaleConfig: a listed service with 127.0.0.1 (darwin), resolv.conf
\* with the line nameserver 127.0.0.1 (linux)
checkForStaleConfig(o, listed) ==
    IF platform = "darwin" THEN listed /\ includes(o.dns, "127.0.0.1")
    ELSE IF platform = "linux"
    THEN o.resolvConf # Missing /\ includes(o.resolvConf, "nameserver 127.0.0.1")
    ELSE FALSE
\* what a step of main.ts leaves alone
AppFrame ==
    /\ UNCHANGED <<peer, now, tableVars, cdVars, ops, calls, records, matcherVars>>
    /\ UNCHANGED <<queries, activeConnections, connections, platform, found>>
    /\ HistoryUpdate(<< >>)
\* startProxy returns { success: false, error }
Failure == [app EXCEPT !.pc = "ready", !.result = "failure"]

\* initializeModules, the crash recovery at its end: getDnsBackup,
\* checkForStaleConfig, loadBackup, restore, setDnsBackup(null)
initializeModules(listed, fails) ==
    LET isStale == checkForStaleConfig(os, listed)
        recover == dnsBackup # NoBackup /\ isStale
        r == restore(os, dnsBackup, fails)
    IN /\ app.pc = "boot"
       /\ listed \/ (platform = "darwin" /\ dnsBackup # NoBackup)
       /\ IF recover
          THEN /\ backup' = dnsBackup
               /\ os' = r.os
               /\ isConfigured' = FALSE
               /\ emitted' = r.events
               /\ lifecycle' = Append(lifecycle, Call("restore", "ok", r.failed))
               /\ dnsBackup' = NoBackup
          ELSE /\ fails = {}
               /\ emitted' = << >>
               /\ UNCHANGED <<backup, os, isConfigured, lifecycle, dnsBackup>>
       /\ app' = [app EXCEPT !.pc = "ready"]
       /\ Done("initializeModules", "ok")
       /\ UNCHANGED <<originalAllowedIps, cleanupTimer, liveTimers>>
       /\ UNCHANGED <<server, sockets, isRunning, sniRunning, sniServer>>
       /\ AppFrame

\* startProxy up to `await routeManager?.start()`
startProxy(wg) ==
    /\ app.pc = "ready"
    /\ app.starts < MaxStarts
    /\ app' = IF wg = "up"
              THEN [app EXCEPT !.pc = "routeManager", !.starts = @ + 1,
                               !.result = "none"]
              ELSE [Failure EXCEPT !.starts = @ + 1]
    /\ emitted' = << >>
    /\ IF wg = "up" THEN Pending ELSE Done("startProxy", "failure")
    /\ UNCHANGED <<originalAllowedIps, cleanupTimer, liveTimers>>
    /\ UNCHANGED <<server, sockets, isRunning, sniRunning, sniServer>>
    /\ UNCHANGED <<os, backup, isConfigured, lifecycle, dnsBackup>>
    /\ AppFrame

\* `await routeManager?.start()`, from the call to its return: the snapshot
\* read (or [] when the dump fails), started emitted, the interval set
startRouteManager(allowedIps) ==
    /\ app.pc = "routeManager"
    /\ FinishStart(FreeSlot, allowedIps)
    /\ app' = [app EXCEPT !.pc = "dnsProxy"]
    /\ UNCHANGED <<server, sockets, isRunning, sniRunning, sniServer>>
    /\ UNCHANGED <<os, backup, isConfigured, lifecycle, dnsBackup>>
    /\ AppFrame

\* `await dnsProxy?.start()`, from the call to 'listening' or 'error'; it
\* throws when the proxy is running already
startDnsProxy(s, bound) ==
    /\ app.pc = "dnsProxy"
    /\ IF ~startGuard
       THEN /\ bound
            /\ emitted' = << >>
            /\ app' = Failure
            /\ Done("startProxy", "failure")
            /\ UNCHANGED <<server, sockets, isRunning>>
       ELSE /\ FreshSocket(s)
            /\ server' = s
            /\ IF bound
               THEN /\ sockets' = [sockets EXCEPT ![s] = "bound"]
                    /\ isRunning' = TRUE
                    /\ emitted' = <<[type |-> "started", emitter |-> "dnsProxy"]>>
                    /\ app' = [app EXCEPT !.pc = "sniProxy"]
                    /\ Pending
               ELSE /\ sockets' = [sockets EXCEPT ![s] = "failed"]
                    /\ isRunning' = isRunning
                    /\ emitted' = <<[type |-> "error", emitter |-> "dnsProxy"]>>
                    /\ app' = Failure
                    /\ Done("startProxy", "failure")
    /\ UNCHANGED <<originalAllowedIps, cleanupTimer, liveTimers>>
    /\ UNCHANGED <<sniRunning, sniServer>>
    /\ UNCHANGED <<os, backup, isConfigured, lifecycle, dnsBackup>>
    /\ AppFrame

\* `await sniProxy?.start()`, from the call to 'listening' or 'error'; it
\* throws when the proxy is running already
startSniProxy(listening) ==
    /\ app.pc = "sniProxy"
    /\ IF sniRunning
       THEN /\ listening
            /\ emitted' = << >>
            /\ app' = Failure
            /\ Done("startProxy", "failure")
            /\ UNCHANGED <<sniRunning, sniServer>>
       ELSE IF listening
       THEN /\ sniServer' = "listening"
            /\ sniRunning' = TRUE
            /\ emitted' = <<[type |-> "started", emitter |-> "sniProxy"]>>
            /\ app' = [app EXCEPT !.pc = "configure"]
            /\ Pending
       ELSE /\ sniServer' = "failed"
            /\ sniRunning' = sniRunning
            /\ emitted' = <<[type |-> "error", emitter |-> "sniProxy"]>>
            /\ app' = Failure
            /\ Done("startProxy", "failure")
    /\ UNCHANGED <<originalAllowedIps, cleanupTimer, liveTimers>>
    /\ UNCHANGED <<server, sockets, isRunning>>
    /\ UNCHANGED <<os, backup, isConfigured, lifecycle, dnsBackup>>
    /\ AppFrame

\* `await systemDns.configure()`: the catch block of startProxy when it throws
configureSystemDns(fails, rfails) ==
    /\ app.pc = "configure"
    /\ IF isConfigured THEN fails = {} /\ rfails = {} /\ ConfigureAgain
       ELSE Configure(fails, rfails)
    /\ app' = IF outcome'.result = "ok" THEN [app EXCEPT !.pc = "persist"] ELSE Failure
    /\ dnsBackup' = dnsBackup

\* configStore.setDnsBackup(systemDns.getBackup()) and the return of
\* startProxy: { success: true }
persistBackup ==
    /\ app.pc = "persist"
    /\ dnsBackup' = backup
    /\ app' = [app EXCEPT !.pc = "ready", !.result = "success"]
    /\ emitted' = << >>
    /\ Done("startProxy", "ok")
    /\ UNCHANGED <<originalAllowedIps, cleanupTimer, liveTimers>>
    /\ UNCHANGED <<server, sockets, isRunning, sniRunning, sniServer>>
    /\ UNCHANGED <<os, backup, isConfigured, lifecycle>>
    /\ AppFrame

\* the process dies (kill, power loss) and the app is launched again: every
\* object is as its constructor leaves it, sockets and timers are gone; the
\* operating system's settings and the store file are as they were
crash ==
    /\ app.pc # "boot"
    /\ app.crashes < MaxCrashes
    /\ app' = [Booting EXCEPT !.starts = app.starts, !.crashes = app.crashes + 1]
    /\ originalAllowedIps' = << >>
    /\ cleanupTimer' = FALSE
    /\ liveTimers' = 0
    /\ server' = NoSocket
    /\ sockets' = [s \in SocketIds |-> "none"]
    /\ isRunning' = FALSE
    /\ sniRunning' = FALSE
    /\ sniServer' = "null"
    /\ backup' = NoBackup
    /\ isConfigured' = FALSE
    /\ emitted' = << >>
    /\ Pending
    /\ UNCHANGED <<os, lifecycle, dnsBackup>>
    /\ AppFrame

InitializeModules ==
    \E listed \in BOOLEAN, fails \in SUBSET RestoreSteps : initializeModules(listed, fails)
StartProxy == \E wg \in WgStates : startProxy(wg)
StartRouteManager == \E allowedIps \in {<< >>, WgDump} : startRouteManager(allowedIps)
StartDnsProxy == \E s \in SocketIds, bound \in BOOLEAN : startDnsProxy(s, bound)
StartSniProxy == \E listening \in BOOLEAN : startSniProxy(listening)
ConfigureSystemDns ==
    \E fails \in SUBSET ConfigureSteps, rfails \in SUBSET RestoreSteps :
        configureSystemDns(fails, rfails)
PersistBackup == persistBackup
Crash == crash

\* The app launched on each platform and resolver configuration, nothing
\* persisted, no component started.
InitApp ==
    /\ peer \in InitialPeers
    /\ userAllowedIps = peer
    /\ now = 0
    /\ injectedRoutes = EmptyMap
    /\ domainToIps = EmptyMap
    /\ originalAllowedIps = << >>
    /\ cleanupTimer = FALSE
    /\ liveTimers = 0
    /\ ipToDomains = EmptyMap
    /\ cdDomainToIps = EmptyMap
    /\ conflicts = EmptyMap
    /\ ops = [i \in OpIds |-> Idle]
    /\ emitted = << >>
    /\ outcome = NoOutcome
    /\ calls = 0
    /\ records = 0
    /\ started = FALSE
    /\ unmatched = {}
    /\ addCalls = [c \in Cidrs |-> 0]
    /\ trackedAtConflict = {}
    /\ rules = << >>
    /\ lastMatch = NoMatchCall
    /\ loaded = NotLoaded
    /\ DnsConstructed
    /\ SniConstructed
    /\ platform \in {"darwin", "linux", "win32"}
    /\ os \in FoundOn(platform)
    /\ found = os
    /\ backup = NoBackup
    /\ isConfigured = FALSE
    /\ lifecycle = << >>
    /\ MainLoaded
NextApp ==
    \/ InitializeModules
    \/ StartProxy
    \/ StartRouteManager
    \/ StartDnsProxy
    \/ StartSniProxy
    \/ ConfigureSystemDns
    \/ PersistBackup
    \/ Crash
SpecApp == InitApp /\ [][NextApp]_vars

\* C31: at engine start, when a persisted DNS backup exists and the live
\* resolver still points at 127.0.0.1, initializeModules restores the
\* resolver to the backed-up configuration and clears the persisted backup
\* (before startProxy can run configure() and capture a new one).
C31_CrashRecoveryRestores ==
    [][\A listed \in BOOLEAN, fails \in SUBSET RestoreSteps :
          (/\ initializeModules(listed, fails)
           /\ dnsBackup # NoBackup
           /\ PointsAtProxy(os))
             => /\ ~PointsAtProxy(os')
                /\ platform = "darwin" => os'.dns = dnsBackup.services[1].dns
                /\ platform = "linux" =>
                      Nameservers(os'.resolvConf) = Nameservers(dnsBackup.resolvConf)
                /\ dnsBackup' = NoBackup]_vars

\* C38: whenever the resolver of the operating system has been redirected to
\* 127.0.0.1 (it was not when the app found it), the persisted store holds a
\* DNS backup, so that a crash at that instant can be recovered.
C38_BackupPersistedBeforeRedirect ==
    (PointsAtProxy(os) /\ ~PointsAtProxy(found)) => dnsBackup # NoBackup

\* C39: when startProxy has reported failure, no component it started is
\* left active: no cleanup interval, DNS and SNI proxies not running, the
\* resolver not redirected (first startProxy of a process that never crashed).
C39_FailedStartLeavesNothing ==
    (app.pc = "ready" /\ app.result = "failure" /\ app.starts = 1 /\ app.crashes = 0)
        => /\ ~cleanupTimer /\ liveTimers = 0
           /\ ~isRunning
           /\ ~sniRunning
           /\ ~isConfigured /\ ~PointsAtProxy(os)

\* C32: an operation that fails with a ConfigError leaves every component's
\* state unchanged; here configure() on an unsupported platform: it fails and
\* the resolver settings, the DNS backup and the configured flag are as before.
C32_ConfigErrorNoMutation ==
    [][\A fails \in SUBSET ConfigureSteps, rfails \in SUBSET RestoreSteps :
          (platform \notin {"darwin", "linux"} /\ Configure(fails, rfails))
             => /\ outcome' = [kind |-> "configure", result |-> "error"]
                /\ os' = os
                /\ backup' = backup
                /\ isConfigured' = isConfigured]_vars

====
